---- MODULE Spec2Model ----
(***************************************************************************)
(* DeDup: the engine front-end (DedupEngine), the resolver (Deduper), the  *)
(* hashing pool (ParallelProcessor), the sequential scanner and the files  *)
(* table of the workspace store, over a small file system; the workspace   *)
(* file and its directory list, legacy blob and metadata row; the scanners *)
(* and the folder workers of the GUI's ScanThread, its hashing phase and   *)
(* the main window's handling of a scan's start, cancellation and end.     *)
(***************************************************************************)
EXTENDS Integers, Sequences, FiniteSets, TLC

\* ---------------------------------------------------------------- bounds
\* longest root list the engine is driven to
MaxRoots == 2
\* last second of CURRENT_TIMESTAMP the store's clock is followed to
MaxClock == 1
\* longest list handed to save_directories
MaxSaved == 2
\* the largest multiprocessing.cpu_count() the scan thread is run on
MaxCpu == 3

\* run: max_scan_cores, one core being kept for the window
max_scan_cores(available_cores) ==
    IF available_cores - 1 > 2 THEN available_cores - 1 ELSE 2

\* the scan workers of the largest machine
MaxScanCores == max_scan_cores(MaxCpu)

\* ------------------------------------------------------- program constants
large_file_threshold == 50 * 1024 * 1024

\* Python's None / SQL NULL
NULL == "None"

\* the text of the blob when workspace_config has no row "directories"
NoBlob == <<>>

\* ------------------------------------------------------------ file system
\* Two existing directories, A holding three files and B holding one, and
\* one path, X, that does not exist.
Dirs == {"A", "B"}
RootInputs == Dirs \cup {"X"}

\* The files, in the order a directory walk lists them.
PathSeq == <<"A/f1", "A/f2", "A/f3", "B/g1">>
Paths == {PathSeq[i] : i \in 1..Len(PathSeq)}
DirOf(p) == IF p = "B/g1" THEN "B" ELSE "A"
Under(d) == {p \in Paths : DirOf(p) = d}

\* File contents.  "big" stands for a content of exactly the large-file
\* threshold; the others are three bytes long.
Contents == {"foo", "bar", "baz", "big"}
SizeOf(c) == IF c = "big" THEN large_file_threshold ELSE 3

\* The trees the program is run on: the contents of A/f1, A/f2, A/f3 and
\* B/g1.  Under A: two equal files and a different one; two equal files and
\* a third that collides with them on the fingerprint only; three different
\* files, two of them colliding; two equal large files and a small one.
\* B/g1 adds a second pair to each.
Trees == {<<"foo", "foo", "bar", "baz">>, <<"bar", "bar", "baz", "baz">>,
          <<"foo", "bar", "baz", "foo">>, <<"big", "big", "foo", "foo">>}

\* xxh64 hexdigest of a content: a 64-bit digest, so distinct contents may
\* collide; "bar" and "baz" do.
XxHashOf(c) ==
    CASE c = "foo" -> "xx1"
      [] c = "bar" -> "xx2"
      [] c = "baz" -> "xx2"
      [] c = "big" -> "xx3"

\* md5 hexdigest of a content: no collision among the contents of the model.
Md5Of(c) ==
    CASE c = "foo" -> "md5foo"
      [] c = "bar" -> "md5bar"
      [] c = "baz" -> "md5baz"
      [] c = "big" -> "md5big"

VARIABLES
    fs,                   \* path -> [exists, readable, content, mtime]
    directories,          \* DedupEngine.directories
    mw_directories,       \* MainWindow.directories
    workspace_directories,\* the rows of table workspace_directories, in rowid order
    workspace_config,     \* the text stored in workspace_config under key "directories"
    workspace_metadata,   \* the rows of table workspace_metadata
    schema,               \* what the workspace path holds on disk
    opened,               \* a Workspace object is connected to it
    now,                  \* CURRENT_TIMESTAMP, in seconds
    saved,                \* the list the last save_directories call was given
    out,                  \* the list the last store query or scanner call returned
    st_directories,       \* ScanThread.directories
    cancelled,            \* ScanThread.cancelled
    pc,                   \* where ScanThread.run is
    disc,                 \* index of the root the loop over the directories is at
    all_folders,          \* run: all_folders
    folder_queue,         \* run: the items of folder_queue
    unfinished,           \* folder_queue.unfinished_tasks
    workers,              \* core_id -> the locals of scan_folder_worker and its position
    collected,            \* the futures as_completed has yielded
    all_files,            \* run: all_files
    outcome,              \* how ScanThread.run ended: the status of its last branch
    cpu_count,            \* multiprocessing.cpu_count()
    skip_hashed,          \* ScanThread.skip_hashed
    max_hash_cores,       \* run: max_hash_cores
    status_label,         \* MainWindow.status_label: the status the window shows
    scan_btn,             \* MainWindow.scan_btn is enabled
    files,                \* the rows of table files, in rowid order
    potential_groups,     \* find_duplicates: potential_groups of the last run
    confirmed_duplicates, \* find_duplicates: the list the last run returned
    op,                   \* the operation that ran last
    arg,                  \* the path it was called with, if any
    ret,                  \* what it returned or raised
    msgs,                 \* the progress_callback calls it made
    replaced,             \* store writes of the last operation that hit an existing path
    cleanRun              \* the last scan_and_hash began on an empty table and
                          \* only find_duplicates ran since

gui == <<mw_directories, workspace_directories, workspace_config>>

\* the workspace file beside its tables files, directories and config
wsfile == <<workspace_metadata, schema, opened, out>>

\* what save_directories moves beside the two directory tables
dirsave == <<now, saved>>

\* the scan thread
\* the machine and the hashing phase of the scan thread
hashing == <<cpu_count, skip_hashed, max_hash_cores>>

scanthread == <<st_directories, cancelled, pc, disc, all_folders, folder_queue,
                unfinished, workers, collected, all_files, outcome, hashing>>

\* the widgets of the main window a scan writes
window == <<status_label, scan_btn>>

vars == <<fs, directories, gui, files, potential_groups,
          confirmed_duplicates, op, arg, ret, msgs, replaced, cleanRun,
          wsfile, dirsave, scanthread, window>>

\* -------------------------------------------------------------- helpers
RECURSIVE Flatten(_)
Flatten(ss) ==
    IF ss = <<>> THEN <<>> ELSE Head(ss) \o Flatten(Tail(ss))

Range(s) == {s[i] : i \in 1..Len(s)}

\* The enumerations of a finite set: every order in which its elements can come.
Orders(S) ==
    {s \in [1..Cardinality(S) -> S] :
        \A i, j \in 1..Cardinality(S) : s[i] = s[j] => i = j}

PathsOf(tbl) == {tbl[i].path : i \in 1..Len(tbl)}

\* ---------------------------------------------------------------- hasher
compute_xxhash(fsys, p) ==
    IF fsys[p].exists /\ fsys[p].readable THEN XxHashOf(fsys[p].content) ELSE NULL

compute_md5(fsys, p) ==
    IF fsys[p].exists /\ fsys[p].readable THEN Md5Of(fsys[p].content) ELSE NULL

\* ----------------------------------------------------------- the store
\* add_file on a table whose path column lost its UNIQUE constraint: a plain
\* insert
add_file_not_unique(tbl, path, size, modified, xxhash, md5, sha1, status) ==
    tbl \o <<[path |-> path, size |-> size, modified |-> modified,
              xxhash |-> xxhash, md5 |-> md5, sha1 |-> sha1, status |-> status]>>

\* INSERT OR REPLACE on a table whose path column is UNIQUE: the row that
\* holds the path is deleted and the new row gets the next rowid.
add_file(tbl, path, size, modified, xxhash, md5, sha1, status) ==
    SelectSeq(tbl, LAMBDA r : r.path # path)
        \o <<[path |-> path, size |-> size, modified |-> modified,
              xxhash |-> xxhash, md5 |-> md5, sha1 |-> sha1, status |-> status]>>

\* a sequence of add_file calls, one per row, in order
RECURSIVE add_files(_, _)
add_files(tbl, rows) ==
    IF rows = <<>> THEN tbl
    ELSE LET r == Head(rows)
         IN add_files(add_file(tbl, r.path, r.size, r.modified, r.xxhash,
                               r.md5, r.sha1, r.status), Tail(rows))

\* how many of these add_file calls find a row with their path
RECURSIVE Hits(_, _)
Hits(tbl, rows) ==
    IF rows = <<>> THEN 0
    ELSE LET r == Head(rows)
         IN (IF r.path \in PathsOf(tbl) THEN 1 ELSE 0)
            + Hits(add_file(tbl, r.path, r.size, r.modified, r.xxhash,
                            r.md5, r.sha1, r.status), Tail(rows))

\* -------------------------------------------------------------- scanner
\* os.path.isfile(filepath): the path exists and is a regular file; a named
\* pipe, a socket or a device is no file
isfile(fsys, p) == fsys[p].exists /\ fsys[p].regular

\* st_size of os.stat: the length of a regular file, 0 for a named pipe
st_size(fsys, p) == IF fsys[p].regular THEN SizeOf(fsys[p].content) ELSE 0

\* (path, stat.st_size, int(stat.st_mtime))
FileInfo(fsys, p) ==
    [path |-> p, size |-> st_size(fsys, p), modified |-> fsys[p].mtime]

\* os.walk of one root with the whole loop inside one try: a stat that
\* fails loses the root
walk_abort_on_stat(fsys, d) ==
    IF ~fsys[d].listable \/ \E p \in Under(d) : ~fsys[p].exists THEN <<>>
    ELSE LET found == SelectSeq(PathSeq, LAMBDA p : DirOf(p) = d)
         IN [i \in 1..Len(found) |-> FileInfo(fsys, found[i])]

\* os.walk of one root: the names under it that are no directories (the
\* filenames of os.walk, a named pipe among them) and whose stat succeeds;
\* a directory that cannot be listed is passed over without an error
walk(fsys, d) ==
    IF ~fsys[d].listable THEN <<>>
    ELSE LET found == SelectSeq(PathSeq, LAMBDA p : DirOf(p) = d /\ fsys[p].exists)
         IN [i \in 1..Len(found) |-> FileInfo(fsys, found[i])]

scan_directories(fsys, dirs) ==
    Flatten([i \in 1..Len(dirs) |-> walk(fsys, dirs[i])])

\* --------------------------------------------------- the hashing pools
\* as_completed over the futures of one pool.  The completion order is any
\* order of the submitted paths (ord); the tasks of a path submitted more
\* than once (a root listed twice) complete next to each other, which still
\* produces every final table the store can end in.
Completed(submitted, ord) ==
    Flatten([i \in 1..Len(ord) |-> SelectSeq(submitted, LAMBDA f : f.path = ord[i])])

\* the pairs of a pool whose loop has no try around future.result(): the
\* first hash that fails ends the loop
pool_results_abort_on_failure(fsys, done) ==
    LET hashed == [i \in 1..Len(done) |->
                      [path |-> done[i].path, hash |-> compute_xxhash(fsys, done[i].path)]]
        failed == {i \in 1..Len(hashed) : hashed[i].hash = NULL}
    IN IF failed = {} THEN hashed
       ELSE SubSeq(hashed, 1, (CHOOSE i \in failed : \A j \in failed : i <= j) - 1)

\* the (filepath, hash) pairs one pool appends: the falsy hashes are dropped
PoolResults(fsys, done) ==
    LET hashed == [i \in 1..Len(done) |->
                      [path |-> done[i].path, hash |-> compute_xxhash(fsys, done[i].path)]]
    IN SelectSeq(hashed, LAMBDA h : h.hash # NULL)

\* process_files_parallel with `s > self.large_file_threshold` for the large
\* files: a file of exactly the threshold is in neither list
process_files_parallel_strict_threshold(fsys, scanned, ordL, ordS) ==
    LET large_files == SelectSeq(scanned, LAMBDA f : f.size > large_file_threshold)
        small_files == SelectSeq(scanned, LAMBDA f : f.size < large_file_threshold)
        total_files == Len(scanned)
    IN [results  |-> PoolResults(fsys, Completed(large_files, ordL))
                        \o PoolResults(fsys, Completed(small_files, ordS)),
        progress |-> [k \in 1..(Len(large_files) + Len(small_files)) |->
                         [kind |-> "Hashing", a |-> k, b |-> total_files]]]

\* process_files_parallel with `results = ...` in the second loop instead
\* of results.append: the pairs of the large files are lost when there are
\* small files
process_files_parallel_lost_update(fsys, scanned, ordL, ordS) ==
    LET large_files == SelectSeq(scanned, LAMBDA f : f.size >= large_file_threshold)
        small_files == SelectSeq(scanned, LAMBDA f : f.size < large_file_threshold)
        total_files == Len(scanned)
    IN [results  |-> IF small_files = <<>>
                     THEN PoolResults(fsys, Completed(large_files, ordL))
                     ELSE PoolResults(fsys, Completed(small_files, ordS)),
        progress |-> [k \in 1..(Len(large_files) + Len(small_files)) |->
                         [kind |-> "Hashing", a |-> k, b |-> total_files]]]

\* process_files_parallel(files, compute_xxhash, progress_callback): the
\* large files go through the process pool first, then the small files
\* through the thread pool; one progress call per completed future.
process_files_parallel(fsys, scanned, ordL, ordS) ==
    LET large_files == SelectSeq(scanned, LAMBDA f : f.size >= large_file_threshold)
        small_files == SelectSeq(scanned, LAMBDA f : f.size < large_file_threshold)
        total_files == Len(scanned)
    IN [results  |-> PoolResults(fsys, Completed(large_files, ordL))
                        \o PoolResults(fsys, Completed(small_files, ordS)),
        progress |-> [k \in 1..(Len(large_files) + Len(small_files)) |->
                         [kind |-> "Hashing", a |-> k, b |-> total_files]]]

LargePaths(scanned) ==
    {scanned[i].path : i \in {j \in 1..Len(scanned) : scanned[j].size >= large_file_threshold}}
SmallPaths(scanned) ==
    {scanned[i].path : i \in {j \in 1..Len(scanned) : scanned[j].size < large_file_threshold}}

\* ParallelProcessor.__init__: max_workers, as DedupEngine constructs it
max_workers == 8

\* process_files_with_core_tracking: large_cores
large_cores(cpus) ==
    LET max_cores == IF max_workers < cpus THEN max_workers ELSE cpus
        half == IF max_cores \div 2 > 2 THEN max_cores \div 2 ELSE 2
    IN IF half < 4 THEN half ELSE 4

\* process_files_with_core_tracking: small_cores
small_cores(cpus) == IF max_workers < cpus THEN max_workers ELSE cpus

\* the large files the first loop submits: a file is submitted only while
\* `len(future_to_file) < large_cores`, and nothing leaves future_to_file
\* during the loop
LargeSubmitted(scanned, cpus) ==
    LET large_files == SelectSeq(scanned, LAMBDA f : f.size >= large_file_threshold)
    IN SubSeq(large_files, 1,
              IF Len(large_files) < large_cores(cpus) THEN Len(large_files)
              ELSE large_cores(cpus))

\* the futures of a list in the order given by a list of their indexes
InOrder(submitted, ord) == [k \in 1..Len(ord) |-> submitted[ord[k]]]

\* the orders in which the first k of n futures can complete when at most
\* `width` are in flight: the one that completes next is among the first
\* (number completed) + width submitted
RECURSIVE InFlightOrdersUpTo(_, _, _)
InFlightOrdersUpTo(n, width, k) ==
    IF k = 0 THEN {<<>>}
    ELSE UNION {{Append(s, i) : i \in {j \in 1..n : j \notin Range(s) /\ j <= Len(s) + width}} :
                   s \in InFlightOrdersUpTo(n, width, k - 1)}

\* the completion orders the small-file loop can see
InFlightOrders(n, width) == InFlightOrdersUpTo(n, width, n)

\* process_files_with_core_tracking(files, compute_xxhash, core_callback,
\* progress_callback).  stall is the number of small files processed when
\* no future in flight completes within the 0.1 s given to as_completed,
\* which raises TimeoutError out of the function; stall = len(small_files)
\* when every wait is served in time.
process_files_with_core_tracking(fsys, scanned, cpus, ordL, ordS, stall) ==
    LET small_files == SelectSeq(scanned, LAMBDA f : f.size < large_file_threshold)
        total_files == Len(scanned)
        doneL == InOrder(LargeSubmitted(scanned, cpus), ordL)
        doneS == SubSeq(InOrder(small_files, ordS), 1, stall)
    IN [results  |-> IF stall < Len(small_files) THEN <<>>
                     ELSE PoolResults(fsys, doneL) \o PoolResults(fsys, doneS),
        progress |-> [k \in 1..(Len(doneL) + Len(doneS)) |->
                         [kind |-> "Hashing", a |-> k, b |-> total_files]],
        raised   |-> IF stall < Len(small_files) THEN "TimeoutError" ELSE NULL]

\* scan_and_hash step 3: one add_file(filepath, size, modified, xxhash) per
\* result whose path is in file_dict, md5, sha1 and status left to default
StoreRows(scanned, results) ==
    LET file_dict(p) == CHOOSE f \in Range(scanned) : f.path = p
        kept == SelectSeq(results, LAMBDA h : h.path \in {f.path : f \in Range(scanned)})
    IN [i \in 1..Len(kept) |->
            [path |-> kept[i].path, size |-> file_dict(kept[i].path).size,
             modified |-> file_dict(kept[i].path).modified, xxhash |-> kept[i].hash,
             md5 |-> NULL, sha1 |-> NULL, status |-> "present"]]

\* -------------------------------------------------------------- deduper
\* the keys of a defaultdict(list) filled from s, in insertion order
RECURSIVE DistinctKeys(_, _)
DistinctKeys(s, f) ==
    IF s = <<>> THEN <<>>
    ELSE LET before == DistinctKeys(SubSeq(s, 1, Len(s) - 1), f)
             k == s[Len(s)][f]
         IN IF k \in Range(before) THEN before ELSE Append(before, k)

\* the values of that defaultdict: one list per key, members in the order of s
GroupBy(s, f) ==
    LET ks == DistinctKeys(s, f)
    IN [i \in 1..Len(ks) |-> SelectSeq(s, LAMBDA r : r[f] = ks[i])]

\* the hash function that fills column f
HashFor(f, fsys, p) ==
    IF f = "xxhash" THEN compute_xxhash(fsys, p) ELSE compute_md5(fsys, p)

\* the lazy-hash loop marking a record whose file cannot be hashed:
\* `file['status'] = 'missing'` when the hash function returns None
lazy_hash_marks_missing(rows, f, fsys) ==
    [i \in 1..Len(rows) |->
        [old |-> rows[i],
         new |-> IF rows[i][f] = NULL
                 THEN [rows[i] EXCEPT
                          ![f] = HashFor(f, fsys, rows[i].path),
                          !.status = IF HashFor(f, fsys, rows[i].path) = NULL
                                     THEN "missing" ELSE @]
                 ELSE rows[i]]]

\* `if not file[f]: file[f] = compute(file['path'])`, on every dict of a
\* list; old is the dict as it was read, new the dict after the loop body
LazyHash(rows, f, fsys) ==
    [i \in 1..Len(rows) |->
        [old |-> rows[i],
         new |-> IF rows[i][f] = NULL
                 THEN [rows[i] EXCEPT ![f] = HashFor(f, fsys, rows[i].path)]
                 ELSE rows[i]]]

News(pairs) == [i \in 1..Len(pairs) |-> pairs[i].new]

\* the lazy-hash loop without its add_file call: the hash is computed into
\* the dict and never written back
written_not_persisted(pairs, f) == <<>>

\* the dicts the loop wrote back with add_file, in the order it wrote them
Written(pairs, f) == News(SelectSeq(pairs, LAMBDA q : q.old[f] = NULL))

\* `if len(group) > 0`: every list is kept
multi_nonempty(groups) == SelectSeq(groups, LAMBDA g : Len(g) > 0)

\* the groups a list of groups is cut into: the lists of more than one member
Multi(groups) == SelectSeq(groups, LAMBDA g : Len(g) > 1)

\* find_potential_duplicates without the `if not file['xxhash']`: every
\* file is hashed again and its dict written back
find_potential_duplicates_rehash(tbl, fsys) ==
    LET news == [i \in 1..Len(tbl) |->
                    [tbl[i] EXCEPT !.xxhash = compute_xxhash(fsys, tbl[i].path)]]
    IN [groups |-> Multi(GroupBy(news, "xxhash")),
        table  |-> add_files(tbl, news),
        hits   |-> Hits(tbl, news)]

\* Deduper.find_potential_duplicates: the groups returned and the table left
find_potential_duplicates(tbl, fsys) ==
    LET pairs == LazyHash(tbl, "xxhash", fsys)
    IN [groups |-> Multi(GroupBy(News(pairs), "xxhash")),
        table  |-> add_files(tbl, Written(pairs, "xxhash")),
        hits   |-> Hits(tbl, Written(pairs, "xxhash"))]

\* confirm_duplicates with md5_map created once, before the loop over the
\* groups, so that it still holds the earlier groups' files
confirm_duplicates_shared_map(potential, tbl, fsys) ==
    LET news == [i \in 1..Len(potential) |-> News(LazyHash(potential[i], "md5", fsys))]
        written == Flatten([i \in 1..Len(potential) |->
                               Written(LazyHash(potential[i], "md5", fsys), "md5")])
    IN [confirmed |-> Flatten([i \in 1..Len(potential) |->
                                  Multi(GroupBy(Flatten(SubSeq(news, 1, i)), "md5"))]),
        groups    |-> news,
        table     |-> add_files(tbl, written),
        hits      |-> Hits(tbl, written)]

\* confirm_duplicates keyed on the fingerprint again instead of the md5
confirm_duplicates_by_fingerprint(potential, tbl, fsys) ==
    LET news == [i \in 1..Len(potential) |-> News(LazyHash(potential[i], "md5", fsys))]
        written == Flatten([i \in 1..Len(potential) |->
                               Written(LazyHash(potential[i], "md5", fsys), "md5")])
    IN [confirmed |-> Flatten([i \in 1..Len(potential) |->
                                  Multi(GroupBy(news[i], "xxhash"))]),
        groups    |-> news,
        table     |-> add_files(tbl, written),
        hits      |-> Hits(tbl, written)]

\* Deduper.confirm_duplicates: the confirmed groups, the potential groups as
\* the loop leaves their dicts (the same objects, md5 filled in) and the table
confirm_duplicates(potential, tbl, fsys) ==
    LET pairs(g) == LazyHash(g, "md5", fsys)
        written == Flatten([i \in 1..Len(potential) |-> Written(pairs(potential[i]), "md5")])
    IN [confirmed |-> Flatten([i \in 1..Len(potential) |->
                                  Multi(GroupBy(News(pairs(potential[i])), "md5"))]),
        groups    |-> [i \in 1..Len(potential) |-> News(pairs(potential[i]))],
        table     |-> add_files(tbl, written),
        hits      |-> Hits(tbl, written)]

\* ----------------------------------------------------------------- Init
\* the file system of a tree: every file is there, regular and readable,
\* every directory can be listed
FileSystem(t) ==
    [p \in Paths \cup Dirs |->
        IF p \in Dirs THEN [exists |-> TRUE, listable |-> TRUE]
        ELSE [exists |-> TRUE, regular |-> TRUE, readable |-> TRUE, mtime |-> 1,
              content |-> t[CHOOSE i \in 1..Len(PathSeq) : PathSeq[i] = p]]]

\* no ScanThread has been started
ScanIdle ==
    /\ st_directories = <<>>
    /\ cancelled = FALSE
    /\ pc = "idle"
    /\ disc = 1
    /\ all_folders = <<>>
    /\ folder_queue = <<>>
    /\ unfinished = 0
    /\ workers = <<>>
    /\ collected = {}
    /\ all_files = <<>>
    /\ outcome = NULL
    /\ skip_hashed = FALSE
    /\ max_hash_cores = NULL
    /\ status_label = "Ready to scan"
    /\ scan_btn = TRUE

Init ==
    /\ \E t \in Trees : fs = FileSystem(t)
    /\ ScanIdle
    /\ cpu_count = MaxCpu
    /\ directories = <<>>
    /\ mw_directories = <<>>
    /\ workspace_directories = <<>>
    /\ workspace_config = NoBlob
    /\ files = <<>>
    /\ potential_groups = <<>>
    /\ confirmed_duplicates = <<>>
    /\ op = "init"
    /\ arg = NULL
    /\ ret = NULL
    /\ msgs = <<>>
    /\ replaced = 0
    /\ cleanRun = FALSE
    /\ workspace_metadata = <<>>
    /\ schema = "ok"
    /\ opened = TRUE
    /\ now = 0
    /\ saved = <<>>
    /\ out = <<>>

\* what every operation but find_duplicates does to the bookkeeping; no
\* operation of the engine, the store or the window touches the scan thread
Bookkeeping(name, a, r, m, h) ==
    /\ op' = name
    /\ arg' = a
    /\ ret' = r
    /\ msgs' = m
    /\ replaced' = h
    /\ potential_groups' = <<>>
    /\ confirmed_duplicates' = <<>>
    /\ UNCHANGED scanthread

\* an operation that writes no widget of the window
Done(name, a, r, m, h) ==
    /\ Bookkeeping(name, a, r, m, h)
    /\ UNCHANGED window

\* --------------------------------------------------- file system changes
\* a file becomes unreadable (open fails, stat still succeeds)
Protect(p) ==
    /\ fs[p].exists /\ fs[p].readable
    /\ fs' = [fs EXCEPT ![p].readable = FALSE]
    /\ Done("protect", p, NULL, <<>>, 0)
    /\ cleanRun' = FALSE
    /\ UNCHANGED <<directories, files, gui, wsfile, dirsave>>

\* ------------------------------------------------------- store operations
\* Workspace.add_file called for a file of the tree as a record is created
\* on discovery: size and modification time from stat, no hash computed yet
AddFile(p) ==
    /\ fs[p].exists
    /\ files' = add_file(files, p, SizeOf(fs[p].content), fs[p].mtime, NULL, NULL,
                         NULL, "present")
    /\ Done("add_file", p, NULL, <<>>, IF p \in PathsOf(files) THEN 1 ELSE 0)
    /\ cleanRun' = FALSE
    /\ UNCHANGED <<fs, directories, gui, wsfile, dirsave>>

\* clear_files that also deletes the rows of workspace_metadata
clear_files_and_metadata ==
    /\ files' = <<>>
    /\ workspace_metadata' = <<>>
    /\ Done("clear_files", NULL, NULL, <<>>, 0)
    /\ cleanRun' = FALSE
    /\ UNCHANGED <<fs, directories, gui, schema, opened, out, dirsave>>

\* Workspace.clear_files
ClearFiles ==
    /\ files' = <<>>
    /\ Done("clear_files", NULL, NULL, <<>>, 0)
    /\ cleanRun' = FALSE
    /\ UNCHANGED <<fs, directories, gui, wsfile, dirsave>>

\* ------------------------------------------------------------ the engine
\* os.path.exists(directory), for the paths the engine is given
Exists(d) == d \in Dirs

\* list.remove: the first occurrence goes
RemoveFirst(s, d) ==
    LET i == CHOOSE k \in 1..Len(s) : s[k] = d /\ \A j \in 1..(k - 1) : s[j] # d
    IN SubSeq(s, 1, i - 1) \o SubSeq(s, i + 1, Len(s))

\* what add_directory leaves in self.directories
AddedRoot(dirs, d) == IF Exists(d) THEN Append(dirs, d) ELSE dirs

\* DedupEngine.add_directory
AddDirectory(d) ==
    /\ Exists(d) => Len(directories) < MaxRoots
    /\ directories' = AddedRoot(directories, d)
    /\ Done("add_directory", d, IF Exists(d) THEN "True" ELSE "False", <<>>, 0)
    /\ cleanRun' = FALSE
    /\ UNCHANGED <<fs, files, gui, wsfile, dirsave>>

\* DedupEngine.remove_directory
RemoveDirectory(d) ==
    /\ directories' = IF d \in Range(directories) THEN RemoveFirst(directories, d)
                      ELSE directories
    /\ Done("remove_directory", d, IF d \in Range(directories) THEN "True" ELSE "False",
            <<>>, 0)
    /\ cleanRun' = FALSE
    /\ UNCHANGED <<fs, files, gui, wsfile, dirsave>>

\* `if self.directories is None`: an empty list passes
no_roots_is_none(dirs) == dirs = NULL

\* `if not self.directories`
NoRoots(dirs) == dirs = <<>>

Msg(kind, a, b) == [kind |-> kind, a |-> a, b |-> b]

\* DedupEngine.scan_and_hash
ScanAndHash ==
    IF NoRoots(directories)
    THEN /\ Done("scan_and_hash", NULL, "ValueError", <<>>, 0)
         /\ cleanRun' = FALSE
         /\ UNCHANGED <<fs, directories, files, gui, wsfile, dirsave>>
    ELSE \E scanned \in {scan_directories(fs, directories)} :
         \E ordL \in Orders(LargePaths(scanned)), ordS \in Orders(SmallPaths(scanned)) :
         \E pool \in {process_files_parallel(fs, scanned, ordL, ordS)} :
         \E rows \in {StoreRows(scanned, pool.results)} :
                  /\ files' = add_files(files, rows)
                  /\ Done("scan_and_hash", NULL, NULL,
                          <<Msg("Scanning completed", Len(scanned), 0)>>
                              \o pool.progress
                              \o <<Msg("Hashing completed", Len(pool.results), 0)>>,
                          Hits(files, rows))
                  /\ cleanRun' = (files = <<>>)
                  /\ UNCHANGED <<fs, directories, gui, wsfile, dirsave>>

\* DedupEngine.find_duplicates
FindDuplicates ==
    \E p1 \in {find_potential_duplicates(files, fs)} :
    \E p2 \in {confirm_duplicates(p1.groups, p1.table, fs)} :
       /\ files' = p2.table
       /\ potential_groups' = p2.groups
       /\ confirmed_duplicates' = p2.confirmed
       /\ op' = "find_duplicates"
       /\ arg' = NULL
       /\ ret' = NULL
       /\ msgs' = <<Msg("Finding potential duplicates", 0, 0),
                    Msg("Found potential groups", Len(p1.groups), 0),
                    Msg("Confirmed groups", Len(p2.confirmed), 0)>>
       /\ replaced' = p1.hits + p2.hits
       /\ UNCHANGED <<fs, directories, gui, cleanRun, wsfile, dirsave, scanthread,
                      window>>

\* ------------------------------------------- the directory list on disk
\* json.dumps of a list of strings, as the tokens of the text
json_dumps(list) ==
    <<"[">>
      \o Flatten([i \in 1..Len(list) |->
                     (IF i > 1 THEN <<", ">> ELSE <<>>) \o <<"\"", list[i], "\"">>])
      \o <<"]">>

\* json.loads of such a text: the strings between the quotes
json_loads(text) ==
    SelectSeq(text, LAMBDA tok : tok \notin {"[", "]", ", ", "\""})

\* the values CURRENT_TIMESTAMP can take over n consecutive statements that
\* begin at second t: the clock does not run backwards
Stamps(t, n) ==
    {st \in [1..n -> t..MaxClock] : \A i \in 1..(n - 1) : st[i] <= st[i + 1]}

\* the rows INSERT INTO workspace_directories adds for a list: the rowid
\* is one more than the largest in the table
InsertedRows(tbl, list, stamps) ==
    LET top == IF tbl = <<>> THEN 0 ELSE tbl[Len(tbl)].id
    IN [i \in 1..Len(list) |->
            [id |-> top + i, directory_path |-> list[i], added_at |-> stamps[i]]]

\* save_directories without the DELETE: the rows are added to the old ones
save_directories_keep_rows(tbl, list, stamps) ==
    [table  |-> tbl \o InsertedRows(tbl, list, stamps),
     config |-> json_dumps(list)]

\* Workspace.save_directories: the table is emptied and refilled, and the
\* legacy blob is written as well
save_directories(tbl, list, stamps) ==
    [table  |-> InsertedRows(<<>>, list, stamps),
     config |-> json_dumps(list)]

\* ORDER BY added_at: rows are read in rowid order and sorted on added_at,
\* rows of one second staying in the order they were read
RECURSIVE OrderByAddedAt(_)
OrderByAddedAt(rows) ==
    IF rows = <<>> THEN <<>>
    ELSE LET sorted == OrderByAddedAt(SubSeq(rows, 1, Len(rows) - 1))
             r == rows[Len(rows)]
         IN SelectSeq(sorted, LAMBDA x : x.added_at <= r.added_at)
              \o <<r>>
              \o SelectSeq(sorted, LAMBDA x : x.added_at > r.added_at)

\* load_directories that reads the legacy blob first
load_directories_blob_first(tbl, config) ==
    IF config # NoBlob THEN json_loads(config)
    ELSE [i \in 1..Len(tbl) |-> OrderByAddedAt(tbl)[i].directory_path]

\* Workspace.load_directories
load_directories(tbl, config) ==
    IF tbl # <<>>
    THEN [i \in 1..Len(tbl) |-> OrderByAddedAt(tbl)[i].directory_path]
    ELSE IF config # NoBlob THEN json_loads(config) ELSE <<>>

\* -------------------------------------------------------- the main window
\* MainWindow.add_directory: d is what the directory dialog returns, an
\* existing directory or "" when the dialog is cancelled
MwAddDirectory(d) ==
    /\ IF d # "" /\ d \notin Range(mw_directories)
       THEN \E stamps \in Stamps(now, Len(mw_directories) + 1) :
            \E sv \in {save_directories(workspace_directories,
                                        Append(mw_directories, d), stamps)} :
               /\ mw_directories' = Append(mw_directories, d)
               /\ workspace_directories' = sv.table
               /\ workspace_config' = sv.config
               /\ now' = stamps[Len(stamps)]
               /\ saved' = mw_directories'
               /\ status_label' = "Added directory"
       ELSE UNCHANGED <<gui, dirsave, status_label>>
    /\ Bookkeeping("mw_add_directory", d, NULL, <<>>, 0)
    /\ UNCHANGED scan_btn
    /\ cleanRun' = FALSE
    /\ UNCHANGED <<fs, directories, files, wsfile>>

\* ------------------------------------------------------ the workspace file
\* What the workspace path can hold: nothing; a workspace database; bytes
\* that are no SQLite database; the SQLite database of something else (or
\* an empty file), with none of the workspace's tables; a database whose
\* table files lacks the columns the indexes are created on.
Schemas == {"absent", "ok", "garbage", "foreign", "mismatch"}

\* the lists save_directories is called with
SavedLists == UNION {[1..n -> Dirs] : n \in 0..MaxSaved}

\* _init_db with the tables dropped and created again
init_db_recreate(sch, tables) ==
    CASE sch = "garbage"  -> [schema |-> sch, raised |-> "DatabaseError", tables |-> tables]
      [] sch = "mismatch" -> [schema |-> sch, raised |-> "OperationalError", tables |-> tables]
      [] OTHER            -> [schema |-> "ok", raised |-> NULL,
                              tables |-> [files |-> <<>>, directories |-> <<>>,
                                          config |-> NoBlob, metadata |-> <<>>]]

\* Workspace.__init__: sqlite3.connect creates the file when there is none,
\* and _init_db creates the tables and indexes that do not exist yet.  The
\* first statement fails on a file that is no database; CREATE INDEX fails
\* on a files table without the column.
init_db(sch, tables) ==
    CASE sch = "garbage"  -> [schema |-> sch, raised |-> "DatabaseError", tables |-> tables]
      [] sch = "mismatch" -> [schema |-> sch, raised |-> "OperationalError", tables |-> tables]
      [] OTHER            -> [schema |-> "ok", raised |-> NULL, tables |-> tables]

\* the four tables of the workspace database
Tables ==
    [files |-> files, directories |-> workspace_directories,
     config |-> workspace_config, metadata |-> workspace_metadata]

\* a Workspace object is constructed on the path; name is the entry point
Connect(name, db) ==
    /\ schema' = db.schema
    /\ files' = db.tables.files
    /\ workspace_directories' = db.tables.directories
    /\ workspace_config' = db.tables.config
    /\ workspace_metadata' = db.tables.metadata
    /\ opened' = (opened \/ db.raised = NULL)
    /\ Done(name, NULL, IF db.raised = NULL THEN "Workspace" ELSE db.raised, <<>>, 0)
    /\ cleanRun' = FALSE
    /\ out' = <<>>

\* Workspace.create_workspace
CreateWorkspace ==
    /\ Connect("create_workspace", init_db(schema, Tables))
    /\ UNCHANGED <<fs, directories, mw_directories, dirsave>>

\* Workspace.load_workspace
LoadWorkspace ==
    /\ IF schema = "absent"
       THEN /\ Done("load_workspace", NULL, "FileNotFoundError", <<>>, 0)
            /\ cleanRun' = FALSE
            /\ UNCHANGED <<files, workspace_directories, workspace_config, wsfile>>
       ELSE Connect("load_workspace", init_db(schema, Tables))
    /\ UNCHANGED <<fs, directories, mw_directories, dirsave>>

\* DedupEngine.__init__
EngineInit ==
    \E db \in {init_db(schema, Tables)} :
       /\ Connect("engine_init", db)
       /\ directories' = IF db.raised = NULL THEN <<>> ELSE directories
       /\ UNCHANGED <<fs, mw_directories, dirsave>>

\* Workspace.save_directories
SaveDirectories(list) ==
    /\ opened
    /\ \E stamps \in Stamps(now, Len(list)) :
       \E sv \in {save_directories(workspace_directories, list, stamps)} :
          /\ workspace_directories' = sv.table
          /\ workspace_config' = sv.config
          /\ now' = IF list = <<>> THEN now ELSE stamps[Len(list)]
    /\ saved' = list
    /\ Done("save_directories", NULL, NULL, <<>>, 0)
    /\ cleanRun' = FALSE
    /\ UNCHANGED <<fs, directories, mw_directories, files, wsfile>>

\* a store query: nothing is written
Query(name, result) ==
    /\ opened
    /\ out' = result
    /\ Done(name, NULL, NULL, <<>>, 0)
    /\ cleanRun' = FALSE
    /\ UNCHANGED <<fs, directories, gui, files, workspace_metadata, schema, opened,
                   dirsave>>

\* Workspace.load_directories
LoadDirectories ==
    Query("load_directories", load_directories(workspace_directories, workspace_config))

\* Workspace.get_files
GetFiles == Query("get_files", files)

\* SUM(size), with `total_size or 0`
RECURSIVE SumSize(_)
SumSize(tbl) == IF tbl = <<>> THEN 0 ELSE Head(tbl).size + SumSize(Tail(tbl))

\* the count of GROUP BY xxhash HAVING COUNT(*) > 1 without the
\* WHERE xxhash IS NOT NULL: the rows without a fingerprint form a group
duplicate_groups_with_null(tbl) ==
    Cardinality({h \in {tbl[i].xxhash : i \in 1..Len(tbl)} :
                    Cardinality({i \in 1..Len(tbl) : tbl[i].xxhash = h}) > 1})

\* the count of GROUP BY xxhash HAVING COUNT(*) > 1 over the rows WHERE
\* xxhash IS NOT NULL
duplicate_groups(tbl) ==
    Cardinality({h \in {tbl[i].xxhash : i \in 1..Len(tbl)} \ {NULL} :
                    Cardinality({i \in 1..Len(tbl) : tbl[i].xxhash = h}) > 1})

\* Workspace.update_workspace_metadata: INSERT OR REPLACE of the row id 1
UpdateWorkspaceMetadata ==
    /\ opened
    /\ workspace_metadata' =
          SelectSeq(workspace_metadata, LAMBDA r : r.id # 1)
             \o <<[id |-> 1, total_files |-> Len(files), total_size |-> SumSize(files),
                   duplicate_groups |-> duplicate_groups(files)]>>
    /\ Done("update_workspace_metadata", NULL, NULL, <<>>, 0)
    /\ cleanRun' = FALSE
    /\ UNCHANGED <<fs, directories, gui, files, schema, opened, out, dirsave>>

\* Workspace.get_workspace_stats: total_files, total_size and
\* duplicate_groups of the row id 1, or the defaults
GetWorkspaceStats ==
    Query("get_workspace_stats",
          IF \E i \in 1..Len(workspace_metadata) : workspace_metadata[i].id = 1
          THEN LET r == CHOOSE x \in Range(workspace_metadata) : x.id = 1
               IN <<r.total_files, r.total_size, r.duplicate_groups>>
          ELSE <<0, 0, 0>>)

\* the files table a session of scanning and resolving leaves for a tree
StoredFiles(fsys) ==
    find_potential_duplicates(
        add_files(<<>>, [i \in 1..Len(PathSeq) |->
                            [path |-> PathSeq[i], size |-> SizeOf(fsys[PathSeq[i]].content),
                             modified |-> fsys[PathSeq[i]].mtime, xxhash |-> NULL,
                             md5 |-> NULL, sha1 |-> NULL, status |-> "present"]]),
        fsys).table

\* The workspace path before the program opens it: one of the Schemas; a
\* workspace database holds the files of an earlier session or none, a
\* directory table saved at second 0 or none, and a legacy blob or none.
InitWorkspace ==
    /\ \E t \in Trees : fs = FileSystem(t)
    /\ ScanIdle
    /\ cpu_count = MaxCpu
    /\ schema \in Schemas
    /\ opened = FALSE
    /\ IF schema = "ok"
       THEN /\ files \in {<<>>, StoredFiles(fs)}
            /\ workspace_directories \in
                  {InsertedRows(<<>>, l, [i \in 1..Len(l) |-> 0]) :
                      l \in {<<>>, <<"A">>, <<"B", "A">>}}
            /\ workspace_config \in {NoBlob, json_dumps(<<>>), json_dumps(<<"A", "B">>)}
       ELSE /\ files = <<>>
            /\ workspace_directories = <<>>
            /\ workspace_config = NoBlob
    /\ workspace_metadata = <<>>
    /\ directories = <<>>
    /\ mw_directories = <<>>
    /\ potential_groups = <<>>
    /\ confirmed_duplicates = <<>>
    /\ op = "init"
    /\ arg = NULL
    /\ ret = NULL
    /\ msgs = <<>>
    /\ replaced = 0
    /\ cleanRun = FALSE
    /\ now = 0
    /\ saved = <<>>
    /\ out = <<>>

\* ------------------------------------------------------- the scanners
\* everything but the file system and the scan thread
program == <<directories, gui, files, potential_groups, confirmed_duplicates,
             op, arg, ret, msgs, replaced, cleanRun, wsfile, dirsave>>

\* a file is deleted: it is no longer listed and its stat fails
Vanish(p) ==
    /\ fs[p].exists
    /\ fs' = [fs EXCEPT ![p].exists = FALSE]
    /\ UNCHANGED <<program, scanthread, window>>

\* a directory can no longer be listed: os.listdir and os.scandir fail
Unlist(d) ==
    /\ fs[d].listable
    /\ fs' = [fs EXCEPT ![d].listable = FALSE]
    /\ UNCHANGED <<program, scanthread, window>>

\* scan_directories called on the window's roots, by a caller outside the
\* scan thread
ScanDirectories ==
    /\ pc = "idle"
    /\ out' = scan_directories(fs, mw_directories)
    /\ Done("scan_directories", NULL, NULL, <<>>, 0)
    /\ UNCHANGED <<fs, directories, gui, files, cleanRun, workspace_metadata,
                   schema, opened, dirsave>>

\* scan_single_directory of scan_directories_parallel
scan_single_directory(fsys, d) == walk(fsys, d)

\* scan_directories_parallel called on the window's roots: the lists of the
\* roots are merged in the order their futures complete
ScanDirectoriesParallel ==
    /\ pc = "idle"
    /\ \E ord \in Orders(1..Len(mw_directories)) :
          out' = Flatten([i \in 1..Len(mw_directories) |->
                             scan_single_directory(fs, mw_directories[ord[i]])])
    /\ Done("scan_directories_parallel", NULL, NULL, <<>>, 0)
    /\ UNCHANGED <<fs, directories, gui, files, cleanRun, workspace_metadata,
                   schema, opened, dirsave>>

\* ------------------------------------------------------- the scan thread
\* the names os.listdir(folder) returns that are no directories
Names(folder) == SelectSeq(PathSeq, LAMBDA p : DirOf(p) = folder)

\* scan_folder_worker as the executor starts it
StartedWorker ==
    [pc |-> "head", folder |-> NULL, idx |-> 0, folder_files |-> <<>>,
     worker_files |-> <<>>]

AllWorkersDone == \A w \in 1..Len(workers) : workers[w].pc = "done"

\* `all_files = worker_files`: the merged list is overwritten
merge_overwrite(merged, worker_list) == worker_list

\* all_files.extend(worker_files)
Merge(merged, worker_list) == merged \o worker_list

\* MainWindow.start_scan: the file records are cleared and a ScanThread is
\* started on the window's roots
StartScan(skip) ==
    /\ pc = "idle"
    /\ mw_directories # <<>>
    /\ opened
    /\ files' = <<>>
    /\ st_directories' = mw_directories
    /\ cancelled' = FALSE
    /\ pc' = "discover"
    /\ disc' = 1
    /\ all_folders' = <<>>
    /\ all_files' = <<>>
    /\ op' = "start_scan"
    /\ arg' = NULL
    /\ ret' = NULL
    /\ msgs' = <<>>
    /\ replaced' = 0
    /\ potential_groups' = <<>>
    /\ confirmed_duplicates' = <<>>
    /\ cleanRun' = FALSE
    /\ out' = <<>>
    /\ skip_hashed' = skip
    /\ status_label' = "Discovering all folders..."
    /\ scan_btn' = FALSE
    /\ UNCHANGED <<fs, directories, gui, workspace_metadata, schema, opened, dirsave,
                   folder_queue, unfinished, workers, collected, outcome, cpu_count,
                   max_hash_cores>>

\* MainWindow.cancel_scan -> ScanThread.cancel, while the thread runs
Cancel ==
    /\ pc \notin {"idle", "done"}
    /\ ~cancelled
    /\ cancelled' = TRUE
    /\ status_label' = "Cancelling scan..."
    /\ UNCHANGED <<fs, program, st_directories, pc, disc, all_folders, folder_queue,
                   unfinished, workers, collected, all_files, outcome, hashing,
                   scan_btn>>

\* run, phase 1A: os.walk of the next root; a folder is kept when its
\* listing holds a file
DiscoverRoot ==
    /\ pc = "discover"
    /\ ~cancelled
    /\ disc <= Len(st_directories)
    /\ LET d == st_directories[disc]
       IN all_folders' = IF fs[d].listable /\ \E p \in Under(d) : fs[p].exists
                         THEN Append(all_folders, d)
                         ELSE all_folders
    /\ disc' = disc + 1
    /\ UNCHANGED <<fs, program, st_directories, cancelled, pc, folder_queue, unfinished,
                   workers, collected, all_files, outcome, hashing, window>>

\* run, after the loop over the roots (left at its end or on cancellation):
\* return when no folder was found, else fill the queue and submit one
\* worker per core
EndDiscovery ==
    /\ pc = "discover"
    /\ cancelled \/ disc > Len(st_directories)
    /\ IF all_folders = <<>>
       THEN /\ pc' = "done"
            /\ outcome' = "No folders with files found"
            /\ status_label' = "No folders with files found"
            /\ UNCHANGED <<folder_queue, unfinished, workers, collected>>
       ELSE /\ pc' = "collect"
            /\ folder_queue' = all_folders
            /\ unfinished' = Len(all_folders)
            /\ workers' = [w \in 1..max_scan_cores(cpu_count) |-> StartedWorker]
            /\ collected' = {}
            /\ status_label' = "Starting parallel scan..."
            /\ UNCHANGED outcome
    /\ UNCHANGED <<fs, program, st_directories, cancelled, disc, all_folders, all_files,
                   hashing, scan_btn>>

\* what a worker step leaves alone
WorkerFrame ==
    UNCHANGED <<fs, program, st_directories, cancelled, pc, disc, all_folders,
                collected, all_files, outcome, hashing, window>>

\* scan_folder_worker: `while not self.cancelled`
WHead(w) ==
    /\ w \in 1..Len(workers)
    /\ workers[w].pc = "head"
    /\ workers' = [workers EXCEPT ![w].pc = IF cancelled THEN "done" ELSE "get"]
    /\ UNCHANGED <<folder_queue, unfinished>>
    /\ WorkerFrame

\* scan_folder_worker: folder_queue.get_nowait(), the loop is left when the
\* queue is empty
WGet(w) ==
    /\ w \in 1..Len(workers)
    /\ workers[w].pc = "get"
    /\ IF folder_queue = <<>>
       THEN /\ workers' = [workers EXCEPT ![w].pc = "done"]
            /\ UNCHANGED folder_queue
       ELSE /\ workers' = [workers EXCEPT ![w].pc = "listdir",
                                          ![w].folder = Head(folder_queue)]
            /\ folder_queue' = Tail(folder_queue)
    /\ UNCHANGED unfinished
    /\ WorkerFrame

\* scan_folder_worker without the finally clause: the `continue` of a
\* failed listing passes over task_done
wlistdir_no_task_done(w) ==
    /\ w \in 1..Len(workers)
    /\ workers[w].pc = "listdir"
    /\ IF fs[workers[w].folder].listable
       THEN workers' = [workers EXCEPT ![w].pc = "file", ![w].idx = 1,
                                       ![w].folder_files = <<>>]
       ELSE workers' = [workers EXCEPT ![w].pc = "head", ![w].folder = NULL]
    /\ UNCHANGED <<folder_queue, unfinished>>
    /\ WorkerFrame

\* scan_folder_worker: os.listdir(folder); when it fails the folder is
\* given up (`continue`) and the finally clause calls task_done
WListdir(w) ==
    /\ w \in 1..Len(workers)
    /\ workers[w].pc = "listdir"
    /\ IF fs[workers[w].folder].listable
       THEN /\ workers' = [workers EXCEPT ![w].pc = "file", ![w].idx = 1,
                                          ![w].folder_files = <<>>]
            /\ UNCHANGED unfinished
       ELSE /\ workers' = [workers EXCEPT ![w].pc = "head", ![w].folder = NULL]
            /\ unfinished' = unfinished - 1
    /\ UNCHANGED folder_queue
    /\ WorkerFrame

\* scan_folder_worker: one round of the loop over the names: the loop is
\* left on cancellation, a name that is no file or whose stat fails is
\* passed over
WFile(w) ==
    /\ w \in 1..Len(workers)
    /\ workers[w].pc = "file"
    /\ LET names == Names(workers[w].folder)
           i == workers[w].idx
       IN IF cancelled \/ i > Len(names)
          THEN workers' = [workers EXCEPT ![w].pc = "add"]
          ELSE workers' = [workers EXCEPT
                              ![w].idx = i + 1,
                              ![w].folder_files =
                                  IF isfile(fs, names[i])
                                  THEN Append(@, FileInfo(fs, names[i]))
                                  ELSE @]
    /\ UNCHANGED <<folder_queue, unfinished>>
    /\ WorkerFrame

\* scan_folder_worker: worker_files.extend(folder_files) under the lock,
\* then folder_queue.task_done()
WAdd(w) ==
    /\ w \in 1..Len(workers)
    /\ workers[w].pc = "add"
    /\ workers' = [workers EXCEPT ![w].pc = "head", ![w].folder = NULL, ![w].idx = 0,
                                  ![w].folder_files = <<>>,
                                  ![w].worker_files = @ \o workers[w].folder_files]
    /\ unfinished' = unfinished - 1
    /\ UNCHANGED folder_queue
    /\ WorkerFrame

\* what a step of run leaves alone once the workers are submitted
RunFrame == UNCHANGED <<fs, program, st_directories, cancelled, all_folders, folder_queue,
                        unfinished, workers, hashing, scan_btn>>

\* run: as_completed yields the future of a worker that returned; the loop
\* is left on cancellation and when every future was yielded
Collect(w) ==
    /\ pc = "collect"
    /\ w \in 1..Len(workers)
    /\ w \notin collected
    /\ workers[w].pc = "done"
    /\ IF cancelled
       THEN /\ pc' = "join"
            /\ UNCHANGED <<collected, all_files>>
       ELSE /\ all_files' = Merge(all_files, workers[w].worker_files)
            /\ collected' = collected \cup {w}
            /\ pc' = IF collected' = 1..Len(workers) THEN "join" ELSE "collect"
    /\ UNCHANGED <<disc, outcome, status_label>>
    /\ RunFrame

\* run: as_completed(futures, timeout=300) raises TimeoutError while a
\* worker is still running; leaving the `with` block waits for the workers
ScanTimeout ==
    /\ pc = "collect"
    /\ ~AllWorkersDone
    /\ pc' = "shutdown"
    /\ status_label' = "Error in parallel scanning"
    /\ UNCHANGED <<disc, collected, all_files, outcome>>
    /\ RunFrame

\* run: the executor has shut down and the except clause starts the
\* sequential scan on an empty list
ShutdownDone ==
    /\ pc = "shutdown"
    /\ AllWorkersDone
    /\ pc' = "fallback"
    /\ all_files' = <<>>
    /\ disc' = 1
    /\ UNCHANGED <<collected, outcome, status_label>>
    /\ RunFrame

\* run: the sequential scan of the next root
\* (scan_single_directory_with_updates), left on cancellation
FallbackRoot ==
    /\ pc = "fallback"
    /\ IF cancelled \/ disc > Len(st_directories)
       THEN /\ pc' = "after"
            /\ UNCHANGED <<disc, all_files>>
       ELSE /\ all_files' = Merge(all_files, walk(fs, st_directories[disc]))
            /\ disc' = disc + 1
            /\ UNCHANGED pc
    /\ UNCHANGED <<collected, outcome, status_label>>
    /\ RunFrame

\* run: folder_queue.join() returns when every folder put in the queue was
\* marked done
JoinReturns ==
    /\ pc = "join"
    /\ unfinished = 0
    /\ pc' = "after"
    /\ UNCHANGED <<disc, collected, all_files, outcome, status_label>>
    /\ RunFrame

\* run: `if self.cancelled: return` after the scanning phase
AfterScan ==
    /\ pc = "after"
    /\ IF cancelled
       THEN pc' = "done" /\ outcome' = "cancelled"
       ELSE pc' = "scanned" /\ UNCHANGED outcome
    /\ UNCHANGED <<disc, collected, all_files, status_label>>
    /\ RunFrame

\* _filter_unhashed_files: the entries that have no record of their path
\* and size with a fingerprint and the same modification time
filter_unhashed_files(tbl, list) ==
    SelectSeq(list, LAMBDA f :
        ~\E r \in Range(tbl) :
            /\ r.path = f.path /\ r.size = f.size /\ r.xxhash # NULL
            /\ r.modified = f.modified)

\* the rest of run with file_list assigned before its length is emitted
\* and the cancellation flag never read: every file is hashed and stored
hash_phase_file_list_first(fsys, tbl, list, skip, cores) ==
    LET todo == IF skip THEN filter_unhashed_files(tbl, list) ELSE list
    IN [all_files      |-> todo,
        max_hash_cores |-> cores - 1,
        stored         |-> StoreRows(todo, PoolResults(fsys, todo)),
        raised         |-> NULL]

\* run after the scanning phase: the skip filter, the size of the hashing
\* pool, then hash_progress_updated.emit(0, len(file_list)) before
\* file_list is assigned: the UnboundLocalError leaves the try block before
\* a file is submitted, so no result reaches the store
hash_phase(fsys, tbl, list, skip, cores) ==
    [all_files      |-> IF skip THEN filter_unhashed_files(tbl, list) ELSE list,
     max_hash_cores |-> cores - 1,
     stored         |-> <<>>,
     raised         |-> "UnboundLocalError"]

\* run, the process pool of the hashing phase and its result loop, over a
\* file_list and max_hash_cores worker processes.  The futures complete in
\* the order ord; a worker process that dies breaks the pool, and
\* future.result() raises for every future not completed by then: broken
\* is the number of futures completed before, len(file_list) when no
\* process dies.  A future whose result is returned is counted and
\* reported when the count is a multiple of 5 or the total; one whose
\* result raises is counted in the except clause, which reports nothing.
\* A pool of no worker raises ValueError before a file is submitted.
hash_result_loop(fsys, file_list, cores, ord, broken) ==
    LET total == Len(file_list)
        returned == SubSeq(Completed(file_list, ord), 1, broken)
    IN IF cores <= 0
       THEN [hash_results |-> <<>>, completed |-> 0, reports |-> <<>>,
             raised |-> "ValueError"]
       ELSE [hash_results |-> PoolResults(fsys, returned),
             completed    |-> total,
             reports      |-> SelectSeq([k \in 1..Len(returned) |-> Msg("Hashing", k, total)],
                                        LAMBDA m : m.a % 5 = 0 \/ m.a = total),
             raised       |-> NULL]

\* run: from `if self.skip_hashed` to the end; an exception is caught by
\* the outer handler, which emits the error status
HashPhase ==
    /\ pc = "scanned"
    /\ \E h \in {hash_phase(fs, files, all_files, skip_hashed, cpu_count)} :
          /\ all_files' = h.all_files
          /\ max_hash_cores' = h.max_hash_cores
          /\ files' = add_files(files, h.stored)
          /\ outcome' = IF h.raised = NULL THEN "Scan completed" ELSE "Error during scan"
          /\ status_label' = outcome'
    /\ pc' = "done"
    /\ UNCHANGED <<fs, directories, gui, potential_groups, confirmed_duplicates, op, arg,
                   ret, msgs, replaced, cleanRun, wsfile, dirsave, st_directories,
                   cancelled, disc, all_folders, folder_queue, unfinished, workers,
                   collected, cpu_count, skip_hashed, scan_btn>>

\* MainWindow.reset_scan_ui, connected to the thread's finished signal
ResetScanUi ==
    /\ pc = "done"
    /\ ~scan_btn
    /\ scan_btn' = TRUE
    /\ status_label' = IF cancelled THEN "Scan cancelled" ELSE status_label
    /\ UNCHANGED <<fs, program, scanthread>>

\* the root lists the window holds when a scan is started
RootLists == UNION {[1..n -> Dirs] : n \in 1..MaxRoots}

\* A workspace is open and the window holds a root list.
InitScan ==
    /\ fs = FileSystem(<<"foo", "foo", "bar", "big">>)
    /\ ScanIdle
    /\ cpu_count = MaxCpu
    /\ mw_directories \in RootLists
    /\ directories = <<>>
    /\ workspace_directories = <<>>
    /\ workspace_config = NoBlob
    /\ files = <<>>
    /\ potential_groups = <<>>
    /\ confirmed_duplicates = <<>>
    /\ op = "init"
    /\ arg = NULL
    /\ ret = NULL
    /\ msgs = <<>>
    /\ replaced = 0
    /\ cleanRun = FALSE
    /\ workspace_metadata = <<>>
    /\ schema = "ok"
    /\ opened = TRUE
    /\ now = 0
    /\ saved = <<>>
    /\ out = <<>>

\* A workspace is open that holds the records of an earlier session or
\* none, the window holds a root list, and the machine has one core or more.
InitRun ==
    /\ fs = FileSystem(<<"foo", "foo", "bar", "big">>)
    /\ ScanIdle
    /\ cpu_count \in 1..MaxCpu
    /\ mw_directories \in RootLists
    /\ files \in {<<>>, StoredFiles(fs)}
    /\ directories = <<>>
    /\ workspace_directories = <<>>
    /\ workspace_config = NoBlob
    /\ potential_groups = <<>>
    /\ confirmed_duplicates = <<>>
    /\ op = "init"
    /\ arg = NULL
    /\ ret = NULL
    /\ msgs = <<>>
    /\ replaced = 0
    /\ cleanRun = FALSE
    /\ workspace_metadata = <<>>
    /\ schema = "ok"
    /\ opened = TRUE
    /\ now = 0
    /\ saved = <<>>
    /\ out = <<>>

\* ------------------------------------------------------------------ Next
\* The engine driven over root A (and the missing path X), with the store
\* written beside it and the files of A becoming unreadable.
Next ==
    \/ \E p \in Under("A") : Protect(p)
    \/ \E p \in Under("A") : AddFile(p)
    \/ ClearFiles
    \/ \E d \in {"A", "X"} : AddDirectory(d)
    \/ \E d \in {"A", "X"} : RemoveDirectory(d)
    \/ ScanAndHash
    \/ FindDuplicates

Spec == Init /\ [][Next]_vars

\* The two root lists alone, over both directories: the engine's and the
\* main window's.
NextRoots ==
    \/ \E d \in RootInputs : AddDirectory(d)
    \/ \E d \in RootInputs : RemoveDirectory(d)
    \/ \E d \in Dirs \cup {""} : MwAddDirectory(d)

SpecRoots == Init /\ [][NextRoots]_vars

\* The store and the resolver alone, over the files of both directories.
NextStore ==
    \/ \E p \in Paths : Protect(p)
    \/ \E p \in Paths : AddFile(p)
    \/ ClearFiles
    \/ FindDuplicates

SpecStore == Init /\ [][NextStore]_vars

\* The workspace file: opened in each way the program has, then its
\* directory list saved and loaded and its files read through the
\* Workspace object.
NextWorkspace ==
    \/ CreateWorkspace
    \/ LoadWorkspace
    \/ EngineInit
    \/ \E l \in SavedLists : SaveDirectories(l)
    \/ LoadDirectories
    \/ GetFiles
    \/ UpdateWorkspaceMetadata

SpecWorkspace == InitWorkspace /\ [][NextWorkspace]_vars

\* The metadata row of an open workspace, recomputed and read while the
\* files table is written and resolved.
NextStats ==
    \/ \E p \in Paths : AddFile(p)
    \/ ClearFiles
    \/ FindDuplicates
    \/ UpdateWorkspaceMetadata
    \/ GetWorkspaceStats

SpecStats == Init /\ [][NextStats]_vars

\* One run of the scan thread with its workers, cancelled or not, and the
\* two scanner functions, while files are deleted and directories become
\* unlistable.
NextScan ==
    \/ \E p \in {"A/f2", "B/g1"} : Vanish(p)
    \/ \E d \in Dirs : Unlist(d)
    \/ ScanDirectories
    \/ ScanDirectoriesParallel
    \/ StartScan(FALSE)
    \/ Cancel
    \/ DiscoverRoot
    \/ EndDiscovery
    \/ \E w \in 1..MaxScanCores : WHead(w)
    \/ \E w \in 1..MaxScanCores : WGet(w)
    \/ \E w \in 1..MaxScanCores : WListdir(w)
    \/ \E w \in 1..MaxScanCores : WFile(w)
    \/ \E w \in 1..MaxScanCores : WAdd(w)
    \/ \E w \in 1..MaxScanCores : Collect(w)
    \/ ScanTimeout
    \/ ShutdownDone
    \/ FallbackRoot
    \/ JoinReturns
    \/ AfterScan
    \/ HashPhase

SpecScan == InitScan /\ [][NextScan]_vars

\* a step of the scan thread or of the window's handler of its end
RunStep ==
    \/ DiscoverRoot
    \/ EndDiscovery
    \/ \E w \in 1..MaxScanCores : WHead(w)
    \/ \E w \in 1..MaxScanCores : WGet(w)
    \/ \E w \in 1..MaxScanCores : WListdir(w)
    \/ \E w \in 1..MaxScanCores : WFile(w)
    \/ \E w \in 1..MaxScanCores : WAdd(w)
    \/ \E w \in 1..MaxScanCores : Collect(w)
    \/ ScanTimeout
    \/ ShutdownDone
    \/ FallbackRoot
    \/ JoinReturns
    \/ AfterScan
    \/ HashPhase
    \/ ResetScanUi

\* One scan started from the window, with or without the skip option, on
\* a machine of one to MaxCpu cores, cancelled or not, up to the window's
\* handling of the thread's end.
NextRun ==
    \/ \E skip \in BOOLEAN : StartScan(skip)
    \/ Cancel
    \/ RunStep

SpecRun == InitRun /\ [][NextRun]_vars

\* ------------------------------------------------------ the hashing pools
\* the trees the pools are run on: three files of the threshold size and a
\* small one; four small files
PoolTrees == {<<"big", "big", "big", "foo">>, <<"foo", "bar", "baz", "foo">>}

\* the root lists whose scan is handed to a pool
PoolRoots == {<<"A">>, <<"B">>, <<"A", "B">>, <<"A", "A">>}

\* The engine holds a root list on a machine of one to MaxCpu cores.
InitPool ==
    /\ \E t \in PoolTrees : fs = FileSystem(t)
    /\ ScanIdle
    /\ cpu_count \in 1..MaxCpu
    /\ directories \in PoolRoots
    /\ mw_directories = <<>>
    /\ workspace_directories = <<>>
    /\ workspace_config = NoBlob
    /\ files = <<>>
    /\ potential_groups = <<>>
    /\ confirmed_duplicates = <<>>
    /\ op = "init"
    /\ arg = NULL
    /\ ret = NULL
    /\ msgs = <<>>
    /\ replaced = 0
    /\ cleanRun = FALSE
    /\ workspace_metadata = <<>>
    /\ schema = "ok"
    /\ opened = TRUE
    /\ now = 0
    /\ saved = <<>>
    /\ out = <<>>

\* the engine's processor called through process_files_parallel on the
\* files of its roots, with compute_xxhash and a progress callback
ProcessFilesParallel ==
    \E scanned \in {scan_directories(fs, directories)} :
    \E ordL \in Orders(LargePaths(scanned)), ordS \in Orders(SmallPaths(scanned)) :
    \E pool \in {process_files_parallel(fs, scanned, ordL, ordS)} :
       /\ out' = pool.results
       /\ Done("process_files_parallel", NULL, NULL, pool.progress, 0)
       /\ UNCHANGED <<fs, directories, gui, files, cleanRun, workspace_metadata,
                      schema, opened, dirsave>>

\* the engine's processor called through process_files_with_core_tracking
\* on the files of its roots, with compute_xxhash and a progress callback
ProcessFilesWithCoreTracking ==
    \E scanned \in {scan_directories(fs, directories)} :
    \E ordL \in Orders(1..Len(LargeSubmitted(scanned, cpu_count))) :
    \E ordS \in InFlightOrders(
                    Len(SelectSeq(scanned, LAMBDA f : f.size < large_file_threshold)),
                    small_cores(cpu_count)) :
    \E stall \in 0..Len(ordS) :
    \E pool \in {process_files_with_core_tracking(fs, scanned, cpu_count,
                                                  ordL, ordS, stall)} :
       /\ out' = pool.results
       /\ Done("process_files_with_core_tracking", NULL,
               pool.raised, pool.progress, 0)
       /\ UNCHANGED <<fs, directories, gui, files, cleanRun, workspace_metadata,
                      schema, opened, dirsave>>

\* the process pool of run's hashing phase and its result loop, on the
\* files of the roots as file_list and with the pool size run computes
HashResultLoop ==
    \E file_list \in {scan_directories(fs, directories)} :
    \E ord \in Orders(PathsOf(file_list)) :
    \E broken \in 0..Len(file_list) :
    \E pool \in {hash_result_loop(
                     fs, file_list,
                     hash_phase(fs, files, file_list, FALSE, cpu_count).max_hash_cores,
                     ord, broken)} :
       /\ out' = pool.hash_results
       /\ Done("hash_result_loop", NULL, pool.raised, pool.reports, 0)
       /\ UNCHANGED <<fs, directories, gui, files, cleanRun, workspace_metadata,
                      schema, opened, dirsave>>

\* The three hashing pools run on the files of one or two roots, while
\* files become unreadable: the two pools of ParallelProcessor and the
\* pool of the scan thread.
NextPool ==
    \/ \E p \in {"A/f2", "B/g1"} : Protect(p)
    \/ ProcessFilesParallel
    \/ ProcessFilesWithCoreTracking
    \/ HashResultLoop

SpecPool == InitPool /\ [][NextPool]_vars

\* ------------------------------------------------- records over time
\* The engine holds root A over a tree of three files and B/g1.
InitLife ==
    /\ fs = FileSystem(<<"foo", "foo", "bar", "baz">>)
    /\ ScanIdle
    /\ cpu_count = MaxCpu
    /\ directories = <<"A">>
    /\ mw_directories = <<>>
    /\ workspace_directories = <<>>
    /\ workspace_config = NoBlob
    /\ files = <<>>
    /\ potential_groups = <<>>
    /\ confirmed_duplicates = <<>>
    /\ op = "init"
    /\ arg = NULL
    /\ ret = NULL
    /\ msgs = <<>>
    /\ replaced = 0
    /\ cleanRun = FALSE
    /\ workspace_metadata = <<>>
    /\ schema = "ok"
    /\ opened = TRUE
    /\ now = 0
    /\ saved = <<>>
    /\ out = <<>>

\* Scans, duplicate searches and saves of the root list through the
\* engine, records added on discovery and cleared, the summary recomputed
\* and read, while files of the root are deleted.
NextLife ==
    \/ \E p \in {"A/f1", "A/f3"} : Vanish(p)
    \/ AddFile("A/f2")
    \/ ClearFiles
    \/ ScanAndHash
    \/ FindDuplicates
    \/ SaveDirectories(<<"A">>)
    \/ UpdateWorkspaceMetadata
    \/ GetWorkspaceStats

SpecLife == InitLife /\ [][NextLife]_vars

\* ------------------------------------------- the scanners side by side
\* the file system with a named pipe at p instead of a regular file
mkfifo(fsys, p) == [fsys EXCEPT ![p].regular = FALSE]

\* the trees the scanners are compared on: regular files only, or a named
\* pipe among the files of A or as the one entry of B
AgreeTrees ==
    {FileSystem(<<"foo", "foo", "bar", "big">>)}
        \cup {mkfifo(FileSystem(<<"foo", "foo", "bar", "big">>), p) : p \in {"A/f2", "B/g1"}}

\* A workspace is open, the window holds a root list, and nothing in the
\* tree changes or fails afterwards.
InitAgree ==
    /\ fs \in AgreeTrees
    /\ ScanIdle
    /\ cpu_count = MaxCpu
    /\ mw_directories \in RootLists
    /\ directories = <<>>
    /\ workspace_directories = <<>>
    /\ workspace_config = NoBlob
    /\ files = <<>>
    /\ potential_groups = <<>>
    /\ confirmed_duplicates = <<>>
    /\ op = "init"
    /\ arg = NULL
    /\ ret = NULL
    /\ msgs = <<>>
    /\ replaced = 0
    /\ cleanRun = FALSE
    /\ workspace_metadata = <<>>
    /\ schema = "ok"
    /\ opened = TRUE
    /\ now = 0
    /\ saved = <<>>
    /\ out = <<>>

\* The two scanner functions and the scanning phase of one run of the scan
\* thread that nobody cancels, on a tree that stays as it is.
NextAgree ==
    \/ ScanDirectories
    \/ ScanDirectoriesParallel
    \/ StartScan(FALSE)
    \/ DiscoverRoot
    \/ EndDiscovery
    \/ \E w \in 1..MaxScanCores : WHead(w)
    \/ \E w \in 1..MaxScanCores : WGet(w)
    \/ \E w \in 1..MaxScanCores : WListdir(w)
    \/ \E w \in 1..MaxScanCores : WFile(w)
    \/ \E w \in 1..MaxScanCores : WAdd(w)
    \/ \E w \in 1..MaxScanCores : Collect(w)
    \/ ScanTimeout
    \/ ShutdownDone
    \/ FallbackRoot
    \/ JoinReturns
    \/ AfterScan

SpecAgree == InitAgree /\ [][NextAgree]_vars

\* ------------------------------------------------------------- the claims
\* the row of table tbl that holds path p
RowOf(tbl, p) == CHOOSE r \in Range(tbl) : r.path = p

\* C1: after any sequence of store writes (scan_and_hash, the resolver's
\* lazy hashing, add_file) and clear_files calls, table files holds at most
\* one row per path: a write to a path that has a row replaces that row.
C1_OneRecordPerPath ==
    \A i, j \in 1..Len(files) : files[i].path = files[j].path => i = j

\* C1 witness: the last operation wrote a path that already had a row, and
\* rows of other paths are in the table as well.
C1_Witness ==
    /\ op \in {"add_file", "scan_and_hash", "find_duplicates"}
    /\ replaced > 0
    /\ Len(files) > 1

\* C2: an update of one field of a record by scan_and_hash or by the
\* resolver leaves the other fields of that record as they were; a stored
\* strong hash is not lost when the fingerprint is written again.
C2_UpdateKeepsOtherFields ==
    [][op' \in {"scan_and_hash", "find_duplicates"} =>
        \A p \in PathsOf(files) \cap PathsOf(files') :
            /\ RowOf(files', p).size = RowOf(files, p).size
            /\ RowOf(files', p).modified = RowOf(files, p).modified
            /\ RowOf(files', p).status = RowOf(files, p).status
            /\ RowOf(files, p).xxhash # NULL =>
                   RowOf(files', p).xxhash = RowOf(files, p).xxhash
            /\ RowOf(files, p).md5 # NULL =>
                   RowOf(files', p).md5 = RowOf(files, p).md5]_vars

\* the records of a table as (path, size, modified, fingerprint, confirmHash)
Records(tbl) ==
    {<<r.path, r.size, r.modified, r.xxhash, r.md5>> : r \in Range(tbl)}

\* C3: on an unchanged tree a second scan_and_hash leaves the set of
\* records as the first left it, and a scan_and_hash that follows
\* find_duplicates leaves every fingerprint and every strong hash as it was.
C3_ScanIdempotent ==
    [][/\ (op = "scan_and_hash" /\ ret = NULL /\ op' = "scan_and_hash")
            => Records(files') = Records(files)
       /\ (op = "find_duplicates" /\ op' = "scan_and_hash")
            => \A p \in PathsOf(files) \cap PathsOf(files') :
                  /\ RowOf(files', p).xxhash = RowOf(files, p).xxhash
                  /\ RowOf(files', p).md5 = RowOf(files, p).md5]_vars

\* the paths of the members of a group
Members(g) == {g[i].path : i \in 1..Len(g)}

\* the confirmed groups a path is a member of
ConfirmedOf(p) ==
    {i \in 1..Len(confirmed_duplicates) : p \in Members(confirmed_duplicates[i])}

\* C4: every confirmed group has at least two members and is a subset of
\* exactly one potential group, is no larger than it, and no file is a
\* member of two confirmed groups.
C4_ConfirmedWithinPotential ==
    op = "find_duplicates" =>
        /\ \A i \in 1..Len(confirmed_duplicates) :
              LET c == confirmed_duplicates[i]
                  holders == {k \in 1..Len(potential_groups) :
                                 Members(c) \subseteq Members(potential_groups[k])}
              IN /\ Len(c) >= 2
                 /\ Cardinality(Members(c)) = Len(c)
                 /\ Cardinality(holders) = 1
                 /\ \A k \in holders : Len(c) <= Len(potential_groups[k])
        /\ \A p \in Paths : Cardinality(ConfirmedOf(p)) <= 1

\* C4 witness: a run that found one potential group of four files and cut
\* it into two confirmed groups.
C4_Witness ==
    /\ op = "find_duplicates"
    /\ Len(potential_groups) = 1
    /\ Len(potential_groups[1]) = 4
    /\ Len(confirmed_duplicates) = 2

\* C5: the members of a confirmed group have the same fingerprint and the
\* same strong hash, and a member of a potential group whose strong hash no
\* other member of that group has is in no confirmed group.
C5_CollisionsExcluded ==
    op = "find_duplicates" =>
        /\ \A i \in 1..Len(confirmed_duplicates) :
              \A a, b \in Range(confirmed_duplicates[i]) :
                  a.xxhash = b.xxhash /\ a.md5 = b.md5
        /\ \A k \in 1..Len(potential_groups) :
              \A a \in Range(potential_groups[k]) :
                  (\A b \in Range(potential_groups[k]) : b.md5 = a.md5 => b.path = a.path)
                      => ConfirmedOf(a.path) = {}

\* C5 witness: a potential group with a fingerprint collision in it: two
\* members were confirmed and a third, whose md5 differs, was left out.
C5_Witness ==
    /\ op = "find_duplicates"
    /\ \E k \in 1..Len(potential_groups) :
          \E a, b, c \in Range(potential_groups[k]) :
              /\ a.path # b.path /\ a.md5 = b.md5 /\ a.md5 # NULL
              /\ c.md5 # a.md5 /\ c.md5 # NULL
              /\ ConfirmedOf(a.path) # {}
              /\ ConfirmedOf(c.path) = {}

\* C6: a file whose hash could not be computed (compute_xxhash or
\* compute_md5 returned None) is excluded from grouping: no member of a
\* potential group has a null fingerprint and no member of a confirmed
\* group has a null fingerprint or a null strong hash.
C6_UnreadableExcluded ==
    op = "find_duplicates" =>
        /\ \A k \in 1..Len(potential_groups) :
              \A a \in Range(potential_groups[k]) : a.xxhash # NULL
        /\ \A i \in 1..Len(confirmed_duplicates) :
              \A a \in Range(confirmed_duplicates[i]) : a.xxhash # NULL /\ a.md5 # NULL

\* root A holds f1 and f2 with the same content and f3 with another, all
\* readable, and the last scan_and_hash ran over it on an empty table
EndToEndCase ==
    /\ cleanRun
    /\ directories # <<>>
    /\ \A p \in Under("A") : fs[p].exists /\ fs[p].readable
    /\ fs["A/f1"].content = fs["A/f2"].content
    /\ fs["A/f3"].content # fs["A/f1"].content

\* C7: for a root holding f1 = f2 # f3, scan_and_hash stores exactly three
\* records with the same fingerprint for f1 and f2, and find_duplicates
\* returns exactly one confirmed group, {f1, f2}, whose members have the
\* same fingerprint and the same strong hash; f3 is in no returned group.
C7_EndToEnd ==
    EndToEndCase =>
        /\ op = "scan_and_hash" =>
              /\ ret = NULL
              /\ Len(files) = 3
              /\ PathsOf(files) = Under("A")
              /\ RowOf(files, "A/f1").xxhash = RowOf(files, "A/f2").xxhash
              /\ RowOf(files, "A/f1").xxhash # NULL
        /\ op = "find_duplicates" =>
              /\ Len(files) = 3
              /\ Len(confirmed_duplicates) = 1
              /\ Len(confirmed_duplicates[1]) = 2
              /\ Members(confirmed_duplicates[1]) = {"A/f1", "A/f2"}
              /\ ConfirmedOf("A/f3") = {}
              /\ RowOf(files, "A/f1").xxhash = RowOf(files, "A/f2").xxhash
              /\ RowOf(files, "A/f1").md5 = RowOf(files, "A/f2").md5
              /\ RowOf(files, "A/f1").md5 # NULL

\* C7 witness: the end-to-end run has finished, on a tree where f3 collides
\* with f1 and f2 on the fingerprint and is told apart by the strong hash.
C7_Witness ==
    /\ EndToEndCase
    /\ op = "find_duplicates"
    /\ Len(potential_groups) = 1
    /\ Len(potential_groups[1]) = 3
    /\ Len(confirmed_duplicates) = 1

\* C8: scan_and_hash with an empty root list raises ValueError, calls no
\* callback and leaves the file records as they were.
C8_NoRootsFails ==
    [][(op' = "scan_and_hash" /\ directories = <<>>) =>
           /\ ret' = "ValueError"
           /\ msgs' = <<>>
           /\ files' = files
           /\ directories' = directories]_vars

\* C8 witness: the scan was refused while the store held records.
C8_Witness ==
    /\ op = "scan_and_hash"
    /\ ret = "ValueError"
    /\ directories = <<>>
    /\ files # <<>>

\* the paths scan_directories returns for a root list
ScannedPaths(dirs) == PathsOf(scan_directories(fs, dirs))

\* C9: add_directory of a missing path returns false and changes nothing;
\* add_directory of an existing path returns true and appends it;
\* remove_directory of a non-member returns false and changes nothing; after
\* remove_directory(d) returned true, d is not in the list and nothing
\* under d is scanned.
C9_AddRemoveContract ==
    [][/\ (op' = "add_directory" /\ ~Exists(arg')) =>
              ret' = "False" /\ directories' = directories
       /\ (op' = "add_directory" /\ Exists(arg')) =>
              ret' = "True" /\ directories' = Append(directories, arg')
       /\ (op' = "remove_directory" /\ arg' \notin Range(directories)) =>
              ret' = "False" /\ directories' = directories
       /\ (op' = "remove_directory" /\ ret' = "True") =>
              /\ arg' \notin Range(directories')
              /\ ScannedPaths(directories') \cap Under(arg') = {}]_vars

\* no element occurs twice in a list
NoDuplicates(s) == \A i, j \in 1..Len(s) : s[i] = s[j] => i = j

\* C10: the root lists are ordered sets: after any sequence of
\* add_directory, remove_directory and MainWindow.add_directory no path
\* occurs more than once in the engine's list or in the window's list.
C10_OrderedSet ==
    /\ NoDuplicates(directories)
    /\ NoDuplicates(mw_directories)

\* C11: load_directories called right after save_directories(L) returns
\* exactly L, in the order of L, whatever the directory table and the
\* legacy blob held before, also for the empty L.
C11_SaveReplacesWholesale ==
    [][(op = "save_directories" /\ op' = "load_directories") => out' = saved]_vars

\* C11 witness: a list of two was saved within one second (both rows carry
\* the same added_at), not in alphabetical order, and loaded back.
C11_Witness ==
    /\ op = "load_directories"
    /\ saved = <<"B", "A">>
    /\ Len(workspace_directories) = 2
    /\ workspace_directories[1].added_at = workspace_directories[2].added_at
    /\ out = saved

\* C12: the legacy blob, workspace_config under key "directories", is
\* never written: no operation changes it.
C12_LegacyBlobReadOnly ==
    [][workspace_config' = workspace_config]_vars

\* C13: whenever the directory table has rows, load_directories returns
\* exactly their paths, whatever the legacy blob holds; when the table is
\* empty and there is no blob it returns the empty list.
C13_LegacyOnlyWhenEmpty ==
    op = "load_directories" =>
        /\ workspace_directories # <<>> =>
              /\ Len(out) = Len(workspace_directories)
              /\ \A i \in 1..Len(out) : out[i] = workspace_directories[i].directory_path
        /\ (workspace_directories = <<>> /\ workspace_config = NoBlob) => out = <<>>

\* C13 witness: load_directories ran on a table with rows beside a legacy
\* blob that holds another list.
C13_Witness ==
    /\ op = "load_directories"
    /\ workspace_directories # <<>>
    /\ workspace_config # NoBlob
    /\ json_loads(workspace_config) # out

\* C14: opening a workspace path that does not exist, by load_workspace or
\* by constructing a DedupEngine, raises FileNotFoundError and creates no
\* file.
C14_OpenMissingFails ==
    [][(schema = "absent" /\ op' \in {"load_workspace", "engine_init"}) =>
           ret' = "FileNotFoundError" /\ schema' = "absent"]_vars

\* C15: load_workspace on a file that is no database or whose schema is not
\* the workspace's raises a database error; it does not return a Workspace.
C15_CorruptFails ==
    [][(schema \in {"garbage", "foreign", "mismatch"} /\ op' = "load_workspace") =>
           ret' \in {"DatabaseError", "OperationalError"}]_vars

\* C16: create_workspace on a path that holds a workspace returns a
\* Workspace and leaves the files, the directory table, the legacy blob and
\* the metadata row as they were.
C16_CreateIdempotent ==
    [][(schema = "ok" /\ op' = "create_workspace") =>
           /\ ret' = "Workspace"
           /\ schema' = "ok"
           /\ files' = files
           /\ workspace_directories' = workspace_directories
           /\ workspace_config' = workspace_config
           /\ workspace_metadata' = workspace_metadata]_vars

\* C16 witness: create_workspace returned on a workspace that holds file
\* records, directories, a blob and a metadata row.
C16_Witness ==
    /\ op = "create_workspace"
    /\ ret = "Workspace"
    /\ files # <<>>
    /\ workspace_directories # <<>>
    /\ workspace_config # NoBlob
    /\ workspace_metadata # <<>>

\* the fingerprints, null excluded, that more than one row of a table holds
SharedFingerprints(tbl) ==
    {h \in {r.xxhash : r \in Range(tbl)} :
        h # NULL /\ \E i, j \in 1..Len(tbl) : i # j /\ tbl[i].xxhash = h /\ tbl[j].xxhash = h}

\* C17: get_workspace_stats right after update_workspace_metadata returns
\* the number of file records, the sum of their sizes and the number of
\* non-null fingerprints held by more than one record, and the metadata
\* table holds one row; with no metadata row it returns three zeros.
C17_StatsAfterRecompute ==
    [][/\ (op = "update_workspace_metadata" /\ op' = "get_workspace_stats") =>
              /\ out' = <<Len(files), SumSize(files), Cardinality(SharedFingerprints(files))>>
              /\ Len(workspace_metadata') = 1
       /\ (op' = "get_workspace_stats" /\ workspace_metadata = <<>>) =>
              out' = <<0, 0, 0>>]_vars

\* C17 witness: the stats were read for a table with a shared fingerprint
\* and two records that have no fingerprint.
C17_Witness ==
    /\ op = "get_workspace_stats"
    /\ workspace_metadata # <<>>
    /\ out = <<Len(files), SumSize(files), Cardinality(SharedFingerprints(files))>>
    /\ out[3] >= 1
    /\ \E i, j \in 1..Len(files) : i # j /\ files[i].xxhash = NULL /\ files[j].xxhash = NULL

\* run got past the scanning phase without a cancellation: all_files is the
\* merged result
ScanReturned ==
    pc = "scanned" \/ (pc = "done" /\ outcome = "Error during scan")

\* no file was deleted and every directory can be listed
NoFailure ==
    /\ \A p \in Paths : fs[p].exists
    /\ \A d \in Dirs : fs[d].listable

\* how often a path occurs in a list of file entries
Occurrences(list, p) == Cardinality({i \in 1..Len(list) : list[i].path = p})

\* run waits in folder_queue.join() for folders no worker will take
Blocked == pc = "join" /\ AllWorkersDone /\ unfinished > 0

\* C18: in a scan without cancellation and without failure, every root
\* folder that holds a file is enqueued, every file of an enqueued folder
\* is in the merged result with its size and time, and when no root is
\* listed twice every file under the roots is there exactly once, whatever
\* the interleaving of the workers.
C18_EveryFileOnce ==
    (ScanReturned /\ NoFailure) =>
        /\ \A d \in Range(st_directories) : Under(d) # {} => d \in Range(all_folders)
        /\ \A d \in Range(all_folders) : \A p \in Under(d) : p \in PathsOf(all_files)
        /\ \A i \in 1..Len(all_files) : all_files[i] = FileInfo(fs, all_files[i].path)
        /\ NoDuplicates(st_directories) =>
              \A p \in Paths :
                  Occurrences(all_files, p) =
                      IF DirOf(p) \in Range(st_directories) THEN 1 ELSE 0

\* C18 witness: a scan of the two roots got through, each of the two
\* workers having scanned one folder.
C18_Witness ==
    /\ ScanReturned
    /\ NoFailure
    /\ st_directories = <<"A", "B">>
    /\ collected = {1, 2}
    /\ workers[1].worker_files # <<>>
    /\ workers[2].worker_files # <<>>
    /\ Len(all_files) = 4

\* the files under the roots that exist in directories that can be listed
Reachable(roots) ==
    {p \in Paths : DirOf(p) \in Range(roots) /\ fs[p].exists /\ fs[DirOf(p)].listable}

\* C19: a stat or listing failure costs only the file or the folder's files
\* it hits: scan_directories, scan_directories_parallel and the scan
\* thread's workers still return every other file under the roots, and a
\* scan that is not cancelled is never left blocked.
C19_FailuresSkipped ==
    /\ ScanReturned =>
          /\ Reachable(st_directories) \subseteq PathsOf(all_files)
          /\ \A p \in PathsOf(all_files) : DirOf(p) \in Range(st_directories)
    /\ op \in {"scan_directories", "scan_directories_parallel"} =>
          /\ Reachable(mw_directories) \subseteq PathsOf(out)
          /\ \A p \in PathsOf(out) : DirOf(p) \in Range(mw_directories)
    /\ ~cancelled => ~Blocked

\* C19 witness: the workers' scan got through although a file of A was
\* deleted and the listing of the enqueued folder B failed.
C19_Witness ==
    /\ ScanReturned
    /\ collected # {}
    /\ ~fs["A/f2"].exists
    /\ ~fs["B"].listable
    /\ "B" \in Range(all_folders)
    /\ PathsOf(all_files) = {"A/f1", "A/f3"}

\* C20: after a cancellation the run is never left blocked: it does not
\* wait in folder_queue.join() once every worker has returned.
C20_CancelTerminates ==
    cancelled => ~Blocked

\* the files the run has found so far: in its merged list or in a worker's
Discovered ==
    PathsOf(all_files)
        \cup UNION {PathsOf(workers[w].worker_files) \cup PathsOf(workers[w].folder_files) :
                       w \in 1..Len(workers)}

\* C21: once a scan run is cancelled the store holds no record written by
\* it, in whichever phase the cancellation arrived: the table start_scan
\* emptied stays empty, whatever the run had found.
C21_CancelDiscards ==
    cancelled => files = <<>> /\ Discovered \cap PathsOf(files) = {}

\* C21 witness: a run that was cancelled while its workers were scanning
\* has ended; a worker had found files, and the store holds no record.
C21_Witness ==
    /\ cancelled
    /\ pc = "done"
    /\ scan_btn
    /\ outcome = "cancelled"
    /\ \E w \in 1..Len(workers) : workers[w].worker_files # <<>>
    /\ files = <<>>

\* C22: a run whose cancellation flag is set comes to rest only in the
\* cancelled outcome: when no step of the thread or of the window's handler
\* of its end is left, the run has returned, it has not emitted
\* scan_completed, the store holds no record of it and the window shows the
\* cancelled status.
C22_CancelledOutcome ==
    (cancelled /\ ~ENABLED RunStep) =>
        /\ pc = "done"
        /\ scan_btn
        /\ status_label = "Scan cancelled"
        /\ outcome # "Scan completed"
        /\ files = <<>>

\* the discovered files whose fingerprint can be computed
Hashable(dirs) == {p \in ScannedPaths(dirs) : compute_xxhash(fs, p) # NULL}

\* C23: after scan_and_hash, whatever the order in which the hashes
\* completed in the two pools, the store holds exactly one record for every
\* discovered file that was hashed, with its fingerprint; when all N
\* discovered files were hashed, the records of discovered paths are N.
C23_OneRecordPerHashedFile ==
    (op = "scan_and_hash" /\ ret = NULL) =>
        /\ \A p \in Hashable(directories) :
              /\ Occurrences(files, p) = 1
              /\ RowOf(files, p).xxhash = compute_xxhash(fs, p)
        /\ Hashable(directories) = ScannedPaths(directories) =>
              Cardinality({i \in 1..Len(files) : files[i].path \in ScannedPaths(directories)})
                  = Cardinality(ScannedPaths(directories))

\* C23 witness: a scan through both pools, two large files and a small
\* one, left three records on a table that was empty.
C23_Witness ==
    /\ op = "scan_and_hash"
    /\ ret = NULL
    /\ cleanRun
    /\ SizeOf(fs["A/f1"].content) >= large_file_threshold
    /\ SizeOf(fs["A/f3"].content) < large_file_threshold
    /\ Hashable(directories) = Under("A")
    /\ Len(files) = 3

\* a record that is current: it carries a fingerprint, and its size and
\* modification time are those of the file on disk
Current(r) ==
    /\ r.xxhash # NULL
    /\ fs[r.path].exists
    /\ r.size = SizeOf(fs[r.path].content)
    /\ r.modified = fs[r.path].mtime

\* C24: a scan started with the skip option keeps the record of every
\* file under its roots that is current: the file is not handed to the
\* hashing phase and its stored fingerprint is still in the store.
C24_SkipKeepsFingerprint ==
    [][(op' = "start_scan" /\ skip_hashed') =>
          \A r \in Range(files) :
              (Current(r) /\ DirOf(r.path) \in Range(mw_directories)) =>
                  r \in Range(files')]_vars

\* the larger of two numbers
Max(a, b) == IF a > b THEN a ELSE b

\* run has gone through the hashing phase
HashPhaseRan == pc = "done" /\ outcome \in {"Error during scan", "Scan completed"}

\* C25: on a machine of any number of cores the scan workers are
\* max(2, cores - 1) and the hashing pool is sized max(1, cores - 1).
C25_PoolSizes ==
    /\ workers # <<>> => Len(workers) = Max(2, cpu_count - 1)
    /\ HashPhaseRan => max_hash_cores = Max(1, cpu_count - 1)

\* the reference: one pool that takes the files in the order they were
\* discovered and applies the same hash function to each
single_pool(fsys, scanned) == PoolResults(fsys, scanned)

\* the files scan_and_hash hands to process_files_parallel
Scanned == scan_directories(fs, directories)

\* C26: for the files of a scan, whatever the completion order in the
\* pool of the large files and in the pool of the small files, the set of
\* (path, fingerprint) pairs process_files_parallel returns is the set the
\* single-pool reference returns.
C26_RoutingTransparent ==
    (op = "scan_and_hash" /\ ret = NULL) =>
        \A ordL \in Orders(LargePaths(Scanned)), ordS \in Orders(SmallPaths(Scanned)) :
            Range(process_files_parallel(fs, Scanned, ordL, ordS).results)
                = Range(single_pool(fs, Scanned))

\* C26 witness: a scan routed two files of exactly the threshold to the
\* large pool and a small file to the other, and stored the fingerprints
\* the hash function gives for their contents.
C26_Witness ==
    /\ op = "scan_and_hash"
    /\ ret = NULL
    /\ LargePaths(Scanned) = {"A/f1", "A/f2"}
    /\ SmallPaths(Scanned) = {"A/f3"}
    /\ \A p \in Under("A") :
          p \in PathsOf(files) /\ RowOf(files, p).xxhash = XxHashOf(fs[p].content)

\* how often a path occurs among the pairs of a result list
Pairs(results, p) == Cardinality({i \in 1..Len(results) : results[i].path = p})

\* C27: a file whose hash fails does not abort the batch.  For the files
\* of a scan and every completion order, process_files_parallel returns
\* the fingerprint of every file that can be read once per time it was
\* submitted and no pair for a file that cannot, and it makes one progress
\* call per file, the last with processed = total.
C27_FailureDoesNotAbort ==
    (op = "scan_and_hash" /\ ret = NULL) =>
        /\ \A ordL \in Orders(LargePaths(Scanned)), ordS \in Orders(SmallPaths(Scanned)) :
              LET pool == process_files_parallel(fs, Scanned, ordL, ordS)
              IN /\ \A p \in Paths :
                       /\ Pairs(pool.results, p) =
                              IF compute_xxhash(fs, p) # NULL
                              THEN Occurrences(Scanned, p) ELSE 0
                       /\ \A i \in 1..Len(pool.results) :
                              pool.results[i].path = p =>
                                  pool.results[i].hash = compute_xxhash(fs, p)
                 /\ Len(pool.progress) = Len(Scanned)
                 /\ \A k \in 1..Len(pool.progress) :
                       pool.progress[k].a = k /\ pool.progress[k].b = Len(Scanned)
        /\ Len(msgs) = Len(Scanned) + 2
        /\ msgs[Len(msgs)].kind = "Hashing completed"
        /\ msgs[Len(msgs)].a = Cardinality({i \in 1..Len(Scanned) :
                                              compute_xxhash(fs, Scanned[i].path) # NULL})

\* C27 witness: a scan of three files of which the first could not be
\* read made its three progress calls and reported two hashed files.
C27_Witness ==
    /\ op = "scan_and_hash"
    /\ ret = NULL
    /\ directories = <<"A">>
    /\ ~fs["A/f1"].readable
    /\ fs["A/f2"].readable /\ fs["A/f3"].readable
    /\ Len(msgs) = 5
    /\ msgs[4] = Msg("Hashing", 3, 3)
    /\ msgs[5] = Msg("Hashing completed", 2, 0)
    /\ {"A/f2", "A/f3"} \subseteq PathsOf(files)

\* C28: after scan_and_hash the store holds a record for every discovered
\* file, and the record of a file whose hash failed has a null fingerprint.
C28_RecordOnDiscovery ==
    (op = "scan_and_hash" /\ ret = NULL) =>
        \A p \in ScannedPaths(directories) :
            /\ p \in PathsOf(files)
            /\ compute_xxhash(fs, p) = NULL => RowOf(files, p).xxhash = NULL

\* C29: a run that was never cancelled and has ended did emit
\* scan_completed, and the store holds the records of the files it hashed.
C29_RunCompletes ==
    (pc = "done" /\ ~cancelled) =>
        /\ outcome = "Scan completed"
        /\ PathsOf(files) = {p \in PathsOf(all_files) : compute_xxhash(fs, p) # NULL}

\* the files whose strong hash a step has filled in
NewlyConfirmHashed ==
    {p \in PathsOf(files') :
        /\ RowOf(files', p).md5 # NULL
        /\ p \in PathsOf(files) => RowOf(files, p).md5 = NULL}

\* C30: in find_duplicates every member of a potential group has a
\* fingerprint, and a strong hash is filled in only for members of a
\* potential group: a file whose fingerprint no other file has keeps a
\* null strong hash.
C30_CausalOrder ==
    [][op' = "find_duplicates" =>
          /\ \A k \in 1..Len(potential_groups') :
                \A a \in Range(potential_groups'[k]) : a.xxhash # NULL
          /\ \A p \in NewlyConfirmHashed :
                \E k \in 1..Len(potential_groups') : p \in Members(potential_groups'[k])
          /\ \A p \in PathsOf(files') :
                (\A q \in PathsOf(files') \ {p} :
                     RowOf(files', q).xxhash # RowOf(files', p).xxhash)
                  => p \notin NewlyConfirmHashed]_vars

\* the paths of the members of the potential groups a step has left
GroupedPaths == UNION {Members(potential_groups'[k]) : k \in 1..Len(potential_groups')}

\* C31: find_duplicates hashes lazily and persists what it computes.  A
\* record that entered without a fingerprint and can be read has its
\* fingerprint stored; every readable member of a potential group has its
\* strong hash stored; a field that was filled keeps its value, and as many
\* rows were written back as fields were missing: one per record without a
\* fingerprint and one per member of a potential group without a strong hash.
C31_LazyAndPersisted ==
    [][op' = "find_duplicates" =>
          /\ PathsOf(files') = PathsOf(files)
          /\ \A p \in PathsOf(files) :
                /\ (RowOf(files, p).xxhash = NULL /\ compute_xxhash(fs, p) # NULL)
                       => RowOf(files', p).xxhash = compute_xxhash(fs, p)
                /\ RowOf(files, p).xxhash # NULL
                       => RowOf(files', p).xxhash = RowOf(files, p).xxhash
                /\ RowOf(files, p).md5 # NULL
                       => RowOf(files', p).md5 = RowOf(files, p).md5
                /\ (p \in GroupedPaths /\ compute_md5(fs, p) # NULL)
                       => RowOf(files', p).md5 # NULL
                /\ (p \in GroupedPaths /\ compute_md5(fs, p) # NULL
                        /\ RowOf(files, p).md5 = NULL)
                       => RowOf(files', p).md5 = compute_md5(fs, p)
          /\ replaced' =
                Cardinality({p \in PathsOf(files) : RowOf(files, p).xxhash = NULL})
                  + Cardinality({p \in GroupedPaths : RowOf(files, p).md5 = NULL})]_vars

\* C31 witness: find_duplicates ran on four records of which one had lost
\* its hashes and the others had theirs: two rows were written, and every
\* record has its fingerprint and, being in a group, its strong hash.
C31_Witness ==
    /\ op = "find_duplicates"
    /\ Len(files) = 4
    /\ replaced = 2
    /\ potential_groups # <<>>
    /\ \A r \in Range(files) : r.xxhash # NULL /\ r.md5 # NULL

\* the workers that hold a folder they took and have not marked done
Holders == {w \in 1..Len(workers) : workers[w].folder # NULL}

\* how often a folder occurs in a list
Count(list, d) == Cardinality({i \in 1..Len(list) : list[i] = d})

\* C32: the folder queue of a scan.  A folder is held by no more workers
\* than times it was put in the queue, and what is neither in the queue nor
\* held has been marked done exactly once: the unfinished count is the
\* number of folders queued or held, also after a listing that failed.  A
\* worker that asks while the queue holds a folder can take the next one,
\* whichever worker it is.  In a scan that is not cancelled the count is 0
\* when the workers have returned, so the wait on the queue returns.
C32_WorkQueue ==
    workers # <<>> =>
        /\ unfinished = Len(folder_queue) + Cardinality(Holders)
        /\ \A d \in Dirs :
              Count(folder_queue, d)
                  + Cardinality({w \in Holders : workers[w].folder = d})
                <= Count(all_folders, d)
        /\ \A w \in 1..Len(workers) :
              (workers[w].pc = "get" /\ folder_queue # <<>>) =>
                  ENABLED (WGet(w) /\ workers'[w].folder = Head(folder_queue)
                                   /\ folder_queue' = Tail(folder_queue))
        /\ (~cancelled /\ AllWorkersDone) => unfinished = 0 /\ folder_queue = <<>>
        /\ (~cancelled /\ pc = "join") => ENABLED JoinReturns

\* C32 witness: of two folders the second worker took the first and listed
\* it, the listing of the other failed, and the wait on the queue is over
\* in a scan that was not cancelled.
C32_Witness ==
    /\ ~cancelled
    /\ pc = "after"
    /\ all_folders = <<"A", "B">>
    /\ unfinished = 0
    /\ workers[1].worker_files = <<>>
    /\ "A/f1" \in PathsOf(workers[2].worker_files)
    /\ fs["B/g1"].exists
    /\ "B/g1" \notin PathsOf(all_files)

\* C33: process_files_with_core_tracking returns normally with one
\* (path, fingerprint) entry for every readable file it was given and none
\* for the others, and its processed counter ends at the number of files.
C33_EveryFileHashed ==
    op = "process_files_with_core_tracking" =>
        /\ ret = NULL
        /\ \A p \in Paths :
              /\ Pairs(out, p) =
                     IF compute_xxhash(fs, p) # NULL THEN Occurrences(Scanned, p) ELSE 0
              /\ \A i \in 1..Len(out) :
                     out[i].path = p => out[i].hash = compute_xxhash(fs, p)
        /\ Len(msgs) = Len(Scanned)
        /\ \A k \in 1..Len(msgs) : msgs[k] = Msg("Hashing", k, Len(Scanned))

\* the progress calls of the last operation that report hashed files
Reports == SelectSeq(msgs, LAMBDA m : m.kind = "Hashing")

C35_StatusPresentNoRemoval ==
    [][/\ \A r \in Range(files') : r.status = "present"
       /\ op' # "clear_files" => PathsOf(files) \subseteq PathsOf(files')]_vars

\* C35 witness: a file was deleted, and a scan of its root and a duplicate
\* search later its record is in the store with status "present".
C35_Witness ==
    /\ op = "find_duplicates"
    /\ directories = <<"A">>
    /\ ~fs["A/f1"].exists
    /\ "A/f1" \in PathsOf(files)
    /\ RowOf(files, "A/f1").status = "present"
    /\ RowOf(files, "A/f1").md5 = NULL
    /\ RowOf(files, "A/f2").md5 # NULL

\* C36: when a scan that had records before it has completed, the store
\* holds records only for files that scan discovered: the record of a file
\* that is no longer under the roots is gone.
C36_RescanClears ==
    [][(op' = "scan_and_hash" /\ ret' = NULL /\ fs' = fs) =>
           PathsOf(files') \subseteq ScannedPaths(directories)]_vars

\* the summary the metadata row holds, or the defaults when there is none
PersistedSummary(rows) ==
    IF \E r \in Range(rows) : r.id = 1
    THEN LET r == CHOOSE x \in Range(rows) : x.id = 1
         IN <<r.total_files, r.total_size, r.duplicate_groups>>
    ELSE <<0, 0, 0>>

\* C37: clear_files leaves table files empty and the directory table, the
\* legacy blob, the metadata row, the root lists and the workspace file as
\* they were; no operation but update_workspace_metadata changes the
\* metadata row, and get_workspace_stats returns the summary that row
\* holds, whatever was added to or cleared from table files since.
C37_ClearFilesFrame ==
    [][/\ (op' = "clear_files" /\ fs' = fs) =>
              /\ files' = <<>>
              /\ UNCHANGED <<workspace_directories, workspace_config, workspace_metadata,
                             directories, mw_directories, schema, opened, now, saved>>
       /\ op' # "update_workspace_metadata" => workspace_metadata' = workspace_metadata
       /\ op' = "get_workspace_stats" =>
              /\ out' = PersistedSummary(workspace_metadata)
              /\ files' = files]_vars

\* C37 witness: the summary was recomputed over three records and the root
\* list saved, the records were cleared, and get_workspace_stats still
\* returns three files of nine bytes with one group.
C37_Witness ==
    /\ op = "get_workspace_stats"
    /\ files = <<>>
    /\ out = <<3, 9, 1>>
    /\ workspace_directories # <<>>
    /\ workspace_config = json_dumps(<<"A">>)

\* C38: find_duplicates only fills hash fields.  The paths that have a
\* record are the same before and after; each record keeps its size, its
\* modification time and its status; a fingerprint or a strong hash that
\* was stored is stored unchanged; the root lists, the directory table, the
\* legacy blob and the metadata row are as they were.
C38_FindDuplicatesFrame ==
    [][(op' = "find_duplicates" /\ fs' = fs) =>
          /\ PathsOf(files') = PathsOf(files)
          /\ Len(files') = Len(files)
          /\ \A p \in PathsOf(files) :
                /\ RowOf(files', p).size = RowOf(files, p).size
                /\ RowOf(files', p).modified = RowOf(files, p).modified
                /\ RowOf(files', p).status = RowOf(files, p).status
                /\ RowOf(files', p).sha1 = RowOf(files, p).sha1
                /\ RowOf(files, p).xxhash # NULL
                       => RowOf(files', p).xxhash = RowOf(files, p).xxhash
                /\ RowOf(files, p).md5 # NULL
                       => RowOf(files', p).md5 = RowOf(files, p).md5
          /\ UNCHANGED <<directories, mw_directories, workspace_directories,
                         workspace_config, workspace_metadata>>]_vars

\* C38 witness: find_duplicates ran over a store with a saved root list
\* and a summary, filled the strong hash of A/f2, and left the record of
\* the deleted A/f1 with the fingerprint it had.
C38_Witness ==
    /\ op = "find_duplicates"
    /\ replaced > 0
    /\ workspace_directories # <<>>
    /\ workspace_metadata # <<>>
    /\ ~fs["A/f1"].exists
    /\ "A/f1" \in PathsOf(files)
    /\ RowOf(files, "A/f1").xxhash = "xx1"
    /\ RowOf(files, "A/f2").md5 = "md5foo"

\* the two lists hold the same entries, each as often
SameEntries(a, b) ==
    \A e \in Range(a) \cup Range(b) : Count(a, e) = Count(b, e)

\* C39: with no failure and no cancellation the three scanners agree: the
\* entries (path, size, modified time) the scan thread's folder workers
\* merged, and the entries scan_directories_parallel returned, are those
\* scan_directories returns for the same roots, each as often, whatever
\* the interleaving of the workers and the order the roots complete in.
C39_ScannersAgree ==
    /\ (ScanReturned /\ NoFailure /\ ~cancelled) =>
           SameEntries(all_files, scan_directories(fs, st_directories))
    /\ (op = "scan_directories_parallel" /\ NoFailure) =>
           SameEntries(out, scan_directories(fs, mw_directories))

\* C39 on trees of regular files: the part of the statement the scanners
\* keep
C39_AgreeOnRegularFiles ==
    (\A p \in Paths : fs[p].regular) => C39_ScannersAgree

\* the folder workers returned a merged list that lacks the named pipe
\* scan_directories reports
C39_PipeLeftOut ==
    /\ ScanReturned
    /\ NoFailure
    /\ ~cancelled
    /\ collected # {}
    /\ ~fs["A/f2"].regular
    /\ "A/f2" \in PathsOf(scan_directories(fs, st_directories))
    /\ "A/f2" \notin PathsOf(all_files)

====
